---- MODULE Spec2Model ----
(***************************************************************************)
(* Model of the personal finance tracker: the transaction form, the App's  *)
(* save flow over local storage, and the three interest projections        *)
(* (investor ledger, payment calendar, dashboard widget).                  *)
(*                                                                         *)
(* Representation                                                          *)
(*   - a "YYYY-MM-DD" string is the record [y, m, d] of its three parts;   *)
(*   - a JavaScript Date is its instant in minutes since the Unix epoch    *)
(*     (UTC); the device's time-zone offset tz (minutes east of UTC) turns *)
(*     instants into local calendar days and back, as the engine does;     *)
(*   - money is counted in units of 1/MoneyScale of a rupee, which makes   *)
(*     every division the code performs on the modelled inputs exact;      *)
(*   - an optional value is a sequence of length 0 (undefined) or 1.       *)
(***************************************************************************)
EXTENDS Integers, Sequences, FiniteSets, TLC

VARIABLES
    tz,            \* time-zone offset of the device, minutes east of UTC
    now,           \* current instant (minutes since the epoch)
    txStore,       \* localStorage[wt_transactions]: None or Some(transactions)
    catStore,      \* localStorage[wt_categories]: None or Some(groups)
    nextId,        \* source of fresh ids (crypto.randomUUID)
    currentUser,   \* App state: None or Some(user id)
    currentView,   \* App state: the AppView shown
    transactions,  \* App state: in-memory list of the user's transactions
    txTypeToAdd,   \* App state: type of the transaction the form adds
    txPreFill,     \* App state: None or Some([category, note])
    userStore,     \* localStorage[wt_users]: None or Some(users)
    defaultCats,   \* in-memory value of the DEFAULT_CATEGORIES array
    lastCall,      \* the storage, settings or AI operation the last step ran
    categories,    \* CategorySettings state: the list shown
    sharesDefaults,\* the groups of that list are the DEFAULT_CATEGORIES objects
    query,         \* AIView state: text of the input
    response,      \* AIView state: None or Some(text)
    loading,       \* AIView state
    aiMount,       \* 0, or the label of the mounted AIView instance
    inFlight,      \* getFinancialAdvice calls that have not returned yet
    callLog        \* transactions as added, the ids updated and deleted, and
                   \* the number of lists the settings view has saved

\* state of the CategorySettings view, of the AIView, and the call record
settingsVars == <<categories, sharesDefaults>>
aiVars == <<query, response, loading, aiMount, inFlight>>
extVars == <<lastCall, settingsVars, aiVars, callLog>>

\* callLog before any call
NoCalls == [added |-> <<>>, updated |-> {}, deleted |-> {}, edits |-> 0]

\* lastCall of a step that runs none of the recorded operations
NoCall == [op |-> "none"]

\* a step of the App outside the settings view and the AI view
OutsideSettingsAndAI ==
    /\ lastCall' = NoCall
    /\ UNCHANGED <<settingsVars, aiVars, callLog>>

vars == <<tz, now, txStore, catStore, nextId, currentUser, currentView,
          transactions, txTypeToAdd, txPreFill, userStore, defaultCats,
          extVars>>

----------------------------------------------------------------------------
(* Bounds of the model                                                     *)

\* at most this many transactions are ever persisted
MaxTx == 1

\* at most this many profiles are ever stored
MaxUsers == 2

None == <<>>
Some(v) == <<v>>
IsSome(o) == Len(o) > 0
Get(o) == o[1]

MinutesPerDay == 24 * 60
MoneyScale == 12 * 100

----------------------------------------------------------------------------
(* Calendar arithmetic of the JavaScript Date object                       *)

IsLeap(y) == (y % 4 = 0 /\ y % 100 # 0) \/ y % 400 = 0

DaysInMonth(y, m) ==
    IF m = 2 THEN (IF IsLeap(y) THEN 29 ELSE 28)
    ELSE IF m \in {4, 6, 9, 11} THEN 30 ELSE 31

\* day number (days since 1970-01-01) of a proleptic Gregorian date
DaysFromCivil(y, m, d) ==
    LET yy  == IF m <= 2 THEN y - 1 ELSE y
        era == yy \div 400
        yoe == yy - era * 400
        mp  == IF m > 2 THEN m - 3 ELSE m + 9
        doy == (153 * mp + 2) \div 5 + d - 1
        doe == yoe * 365 + yoe \div 4 - yoe \div 100 + doy
    IN  era * 146097 + doe - 719468

\* the date [y, m, d] of a day number
CivilFromDays(z) ==
    LET zz  == z + 719468
        era == zz \div 146097
        doe == zz - era * 146097
        yoe == (doe - doe \div 1460 + doe \div 36524 - doe \div 146096) \div 365
        doy == doe - (365 * yoe + yoe \div 4 - yoe \div 100)
        mp  == (5 * doy + 2) \div 153
        dd  == doy - (153 * mp + 2) \div 5 + 1
        mm  == IF mp < 10 THEN mp + 3 ELSE mp - 9
        yy  == yoe + era * 400 + (IF mm <= 2 THEN 1 ELSE 0)
    IN  [y |-> yy, m |-> mm, d |-> dd]

\* local calendar day (as a day number) of an instant
LocalDay(inst) == (inst + tz) \div MinutesPerDay

\* new Date(year, monthIndex, day): local midnight; month and day overflow
\* are carried into the following months, as the engine normalises them
NewDateLocal(year, monthIndex, day) ==
    LET yy == year + monthIndex \div 12
        mm == (monthIndex % 12) + 1
    IN  (DaysFromCivil(yy, mm, 1) + day - 1) * MinutesPerDay - tz

\* new Date("YYYY-MM-DD"): a date-only string is parsed as UTC midnight
NewDateISO(s) == DaysFromCivil(s.y, s.m, s.d) * MinutesPerDay

\* Date.prototype.getDate / getMonth / getFullYear: local calendar parts
GetLocalParts(inst) == CivilFromDays(LocalDay(inst))
GetDate(inst) == GetLocalParts(inst).d

\* date.setDate(0): last day of the previous local month, same time of day
SetDateZero(inst) == inst - GetDate(inst) * MinutesPerDay

\* date.setDate(date.getDate() + n)
AddDays(inst, n) == inst + n * MinutesPerDay

\* date.setFullYear(date.getFullYear() + n), the other local parts kept
AddYears(inst, n) ==
    LET p == GetLocalParts(inst)
        tod == (inst + tz) % MinutesPerDay
    IN  NewDateLocal(p.y + n, p.m - 1, p.d) + tod

\* date.setHours(0, 0, 0, 0): local midnight of the instant's local day
StartOfDay(inst) == LocalDay(inst) * MinutesPerDay - tz

\* date.setHours(23, 59, 59, 999): the last minute of the local day
EndOfDay(inst) == LocalDay(inst) * MinutesPerDay + (MinutesPerDay - 1) - tz

\* date.toISOString().split('T')[0]: the UTC calendar date of the instant
ToISODate(inst) == CivilFromDays(inst \div MinutesPerDay)

\* `${yy}-${mm}-${dd}` built from the local getters
FormatLocal(inst) == GetLocalParts(inst)


----------------------------------------------------------------------------
(* Sequence helpers mirroring the Array methods the code uses              *)

\* items.indexOf(x) + 1: position of the first occurrence, 0 when absent
IndexOf(seq, x) ==
    IF \E i \in 1..Len(seq) : seq[i] = x
    THEN CHOOSE i \in 1..Len(seq) : seq[i] = x /\ \A j \in 1..(i - 1) : seq[j] # x
    ELSE 0

Includes(seq, x) == \E i \in 1..Len(seq) : seq[i] = x

\* how often x occurs in an array
Count(items, x) == Cardinality({ i \in 1..Len(items) : items[i] = x })

\* the elements of an array
SeqToSet(seq) == { seq[i] : i \in 1..Len(seq) }

\* items.splice(i, 1)
RemoveAt(seq, i) == SubSeq(seq, 1, i - 1) \o SubSeq(seq, i + 1, Len(seq))

\* items.splice(i, 0, x): x becomes element i
InsertAt(seq, i, x) == SubSeq(seq, 1, i - 1) \o <<x>> \o SubSeq(seq, i, Len(seq))

\* array.filter(pred) for the predicate "element is in set S of elements"
RECURSIVE FilterSeq(_, _)
FilterSeq(seq, S) ==
    IF seq = <<>> THEN <<>>
    ELSE (IF Head(seq) \in S THEN <<Head(seq)>> ELSE <<>>) \o FilterSeq(Tail(seq), S)

----------------------------------------------------------------------------
(* Categories (constants.ts, storageService.ts)                            *)

DEFAULT_CATEGORIES ==
    << [group |-> "Real Estate Projects",
        items |-> <<"Galaxy", "Tatva Developer", "Kalpchandra Serenity",
                    "Bougainvilla", "Varaj Vihar">>],
       [group |-> "Investor Payments",
        items |-> <<"Investor Funds", "Interest Payment", "Principal Return">>],
       [group |-> "Investments",
        items |-> <<"SIP (Regular)", "SIP (Gold)", "Mutual Funds", "Stocks">>],
       [group |-> "Personal",
        items |-> <<"Salary", "Business Profit", "Rental Income", "Interest",
                    "Mediclaim", "Term Plan", "LIC",
                    "Home Loan", "Personal Loan", "Friends/Family Loan",
                    "Utilities", "Property Tax", "Vehicle", "Travel",
                    "School Fees", "Family Welfare", "Groceries",
                    "Entertainment", "Other">>] >>

\* String.prototype.toLowerCase on the strings the model uses
LowerTable ==
    [s \in {"Asha", "ASHA", "asha", "Ravi", "ravi"} |->
        IF s \in {"Asha", "ASHA", "asha"} THEN "asha" ELSE "ravi"]
    @@
    ( "Constructor" :> "constructor" @@ "constructor" :> "constructor"
      @@ "Galaxy" :> "galaxy" @@ "Tatva Developer" :> "tatva developer"
      @@ "Kalpchandra Serenity" :> "kalpchandra serenity"
      @@ "Bougainvilla" :> "bougainvilla" @@ "Varaj Vihar" :> "varaj vihar"
      @@ "Investor Funds" :> "investor funds"
      @@ "Interest Payment" :> "interest payment"
      @@ "Principal Return" :> "principal return"
      @@ "SIP (Regular)" :> "sip (regular)" @@ "SIP (Gold)" :> "sip (gold)"
      @@ "Mutual Funds" :> "mutual funds" @@ "Stocks" :> "stocks"
      @@ "Salary" :> "salary" @@ "Business Profit" :> "business profit"
      @@ "Rental Income" :> "rental income" @@ "Interest" :> "interest"
      @@ "Mediclaim" :> "mediclaim" @@ "Term Plan" :> "term plan"
      @@ "LIC" :> "lic" @@ "Home Loan" :> "home loan"
      @@ "Personal Loan" :> "personal loan"
      @@ "Friends/Family Loan" :> "friends/family loan"
      @@ "Utilities" :> "utilities" @@ "Property Tax" :> "property tax"
      @@ "Vehicle" :> "vehicle" @@ "Travel" :> "travel"
      @@ "School Fees" :> "school fees" @@ "Family Welfare" :> "family welfare"
      @@ "Groceries" :> "groceries" @@ "Entertainment" :> "entertainment"
      @@ "Other" :> "other" )

ToLowerCase(s) == LowerTable[s]

\* categories.findIndex(c => c.group === g) + 1
GroupIndex(cats, g) ==
    IF \E i \in 1..Len(cats) : cats[i].group = g
    THEN CHOOSE i \in 1..Len(cats) :
            cats[i].group = g /\ \A j \in 1..(i - 1) : cats[j].group # g
    ELSE 0

\* MIGRATION 1 of getCategories: 'Investor Funds' leaves 'Personal'
MigrateInvestorFunds(c) ==
    LET p == GroupIndex(c.cats, "Personal")
        g == GroupIndex(c.cats, "Investor Payments")
        idx == IF p > 0 THEN IndexOf(c.cats[p].items, "Investor Funds") ELSE 0
    IN  IF p > 0 /\ g > 0 /\ idx > 0
        THEN [cats |-> [c.cats EXCEPT
                 ![p].items = RemoveAt(@, idx),
                 ![g].items = IF Includes(@, "Investor Funds") THEN @
                              ELSE <<"Investor Funds">> \o @],
              changed |-> TRUE]
        ELSE c

\* MIGRATION 2 of getCategories, first half: the 'Investments' group exists
CreateInvestmentsGroup(c) ==
    LET p == GroupIndex(c.cats, "Personal")
        grp == [group |-> "Investments", items |-> <<"Mutual Funds", "Stocks">>]
    IN  IF GroupIndex(c.cats, "Investments") = 0
        THEN [cats |-> IF p > 0 THEN InsertAt(c.cats, p, grp)
                       ELSE Append(c.cats, grp),
              changed |-> TRUE]
        ELSE c

\* MIGRATION 2 of getCategories, second half: one SIP item leaves 'Personal'
MoveItemToInvestments(c, item) ==
    LET p == GroupIndex(c.cats, "Personal")
        v == GroupIndex(c.cats, "Investments")
        idx == IF p > 0 THEN IndexOf(c.cats[p].items, item) ELSE 0
    IN  IF p > 0 /\ v > 0 /\ idx > 0
        THEN [cats |-> [c.cats EXCEPT
                 ![p].items = RemoveAt(@, idx),
                 ![v].items = IF Includes(@, item) THEN @ ELSE <<item>> \o @],
              changed |-> TRUE]
        ELSE c

\* the migrations of getCategories applied to a parsed stored list
MigrateCategories(stored) ==
    MoveItemToInvestments(
        MoveItemToInvestments(
            CreateInvestmentsGroup(
                MigrateInvestorFunds([cats |-> stored, changed |-> FALSE])),
            "SIP (Regular)"),
        "SIP (Gold)")

\* the end of getCategories for a stored list: save if any migration happened
SaveIfChanged(m, store) ==
    [result |-> m.cats,
     store |-> IF m.changed THEN Some(m.cats) ELSE store,
     fromDefault |-> FALSE]

\* getCategories() run on the given storage content and DEFAULT_CATEGORIES
getCategoriesOf(store, defaults) ==
    IF IsSome(store)
    THEN SaveIfChanged(MigrateCategories(Get(store)), store)
    ELSE [result |-> defaults, store |-> Some(defaults), fromDefault |-> TRUE]

\* getCategories(): [result, store] = the list returned and the storage
\* content afterwards; fromDefault tells that the result is the in-memory
\* DEFAULT_CATEGORIES array itself and not a parsed copy
getCategories == getCategoriesOf(catStore, defaultCats)

\* ensureInvestorCategory: saveCategories(categories) after the push
SavePushed(got, pushed) ==
    [store |-> Some(pushed),
     defaults |-> IF got.fromDefault THEN pushed ELSE defaultCats]

\* ensureInvestorCategory: the list with the 'Investor Payments' group present
WithInvestorGroup(cats) ==
    IF GroupIndex(cats, "Investor Payments") = 0
    THEN Append(cats, [group |-> "Investor Payments", items |-> <<>>])
    ELSE cats

\* ensureInvestorCategory: the name is pushed unless the group holds it in
\* some casing; only then the list is saved
PushInvestor(got, withGroup, groupIndex, investorName) ==
    IF \E i \in 1..Len(withGroup[groupIndex].items) :
          ToLowerCase(withGroup[groupIndex].items[i]) = ToLowerCase(investorName)
    THEN [store |-> got.store,
          defaults |-> IF got.fromDefault THEN withGroup ELSE defaultCats]
    ELSE SavePushed(got, [withGroup EXCEPT
                             ![groupIndex].items = Append(@, investorName)])

\* ensureInvestorCategory after the lookup of the group
EnsureInGroup(got, withGroup, investorName) ==
    PushInvestor(got, withGroup, GroupIndex(withGroup, "Investor Payments"),
                 investorName)

\* ensureInvestorCategory on the list getCategories returned
EnsureIn(got, investorName) ==
    EnsureInGroup(got, WithInvestorGroup(got.result), investorName)

\* ensureInvestorCategory(investorName): [store, defaults] afterwards
ensureInvestorCategory(investorName) == EnsureIn(getCategories, investorName)

----------------------------------------------------------------------------
(* Transactions in storage (storageService.ts)                             *)

\* stable sort of transactions, newest first: sort((a, b) => b.timestamp - a.timestamp)
RECURSIVE InsertNewestFirst(_, _)
InsertNewestFirst(sorted, t) ==
    IF sorted = <<>> THEN <<t>>
    ELSE IF Head(sorted).timestamp >= t.timestamp
         THEN <<Head(sorted)>> \o InsertNewestFirst(Tail(sorted), t)
         ELSE <<t>> \o sorted

RECURSIVE SortNewestFirst(_)
SortNewestFirst(seq) ==
    IF seq = <<>> THEN <<>>
    ELSE InsertNewestFirst(SortNewestFirst(SubSeq(seq, 1, Len(seq) - 1)),
                           seq[Len(seq)])

\* allTx ? JSON.parse(allTx) : []
ParsedTransactions == IF IsSome(txStore) THEN Get(txStore) ELSE <<>>

\* usersJson ? JSON.parse(usersJson) : []
getUsers == IF IsSome(userStore) THEN Get(userStore) ELSE <<>>

\* parsed.filter(t => t.userId === userId).sort(newest first)
TransactionsOfEveryone(parsed, userId) == SortNewestFirst(parsed)

TransactionsOf(parsed, userId) ==
    SortNewestFirst(FilterSeq(parsed,
        {parsed[i] : i \in {j \in 1..Len(parsed) : parsed[j].userId = userId}}))

\* getTransactions(userId)
getTransactions(userId) == TransactionsOf(ParsedTransactions, userId)

\* addTransaction(transaction): the list written to storage; Date.now()
\* reads later at every call, by a minute within the day of 'now'
addTransaction(transaction) ==
    Append(ParsedTransactions,
           [id |-> <<"tx", nextId>>, timestamp |-> now + nextId] @@ transaction)

----------------------------------------------------------------------------
(* Inputs the model draws from                                             *)

Date(y, m, d) == [y |-> y, m |-> m, d |-> d]

\* device offsets: west of UTC, UTC, east of UTC (India)
TimeZones == {-300, 0, 330}

\* days on which the app is looked at, in increasing order
AsOfDates == << Date(2023, 12, 31), Date(2024, 3, 30), Date(2024, 3, 31),
                Date(2024, 6, 1) >>

\* values of the form's date field
StartDates == { Date(2020, 1, 31), Date(2023, 12, 31) }

\* values of the form's amount field, in rupees
Amounts == { 1000 }

\* values of the form's ROI field, in percent per year
Rois == { 12 }

\* values of the form's duration field, in months
Durations == { 3, 60 }

ReturnPeriods == { "Monthly", "Quarterly", "Half-Yearly", "Yearly", "Maturity" }

InvestorNames == { "Asha" }

\* what is typed into 'Create New Profile': a name, or only blanks
NewUserNames == { "Meera" }
BlankNames == { " " }

\* categories the user picks among those the form offers
CategoryChoices == { "Investor Funds", "Groceries" } \cup InvestorNames

\* an optional form field: left empty, or one of the values
Optional(S) == { None } \cup { Some(v) : v \in S }

----------------------------------------------------------------------------
(* The transaction form (TransactionForm, investor-aware version)          *)

\* parseFloat(amount) of the amount field, in money units
ParseAmount(rupees) == rupees * MoneyScale

\* isInvestorFund
isInvestorFund(category) == category = Some("Investor Funds")

\* maturityDate: the memoised maturity date string, None for ''
maturityDate(date, duration) ==
    IF ~IsSome(duration) THEN None
    ELSE Some(FormatLocal(NewDateLocal(date.y, date.m - 1 + Get(duration), date.d)))

\* interestAmount with the quarterly amount taken as a third of the year's
interestAmountThirds(amount, roi, returnPeriod) ==
    IF ~IsSome(amount) \/ ~IsSome(roi) \/ returnPeriod = "Maturity" THEN 0
    ELSE LET annualInterest == (ParseAmount(Get(amount)) * Get(roi)) \div 100
         IN  CASE returnPeriod = "Monthly"     -> annualInterest \div 12
               [] returnPeriod = "Quarterly"   -> annualInterest \div 3
               [] returnPeriod = "Half-Yearly" -> annualInterest \div 2
               [] returnPeriod = "Yearly"      -> annualInterest
               [] OTHER                        -> 0

\* interestAmount: the memoised periodic interest amount
interestAmount(amount, roi, returnPeriod) ==
    IF ~IsSome(amount) \/ ~IsSome(roi) \/ returnPeriod = "Maturity" THEN 0
    ELSE LET annualInterest == (ParseAmount(Get(amount)) * Get(roi)) \div 100
         IN  CASE returnPeriod = "Monthly"     -> annualInterest \div 12
               [] returnPeriod = "Quarterly"   -> annualInterest \div 4
               [] returnPeriod = "Half-Yearly" -> annualInterest \div 2
               [] returnPeriod = "Yearly"      -> annualInterest
               [] OTHER                        -> 0

\* the investorDetails object handleSubmit builds
BuildInvestorDetails(amount, date, investorName, roi, returnPeriod, duration) ==
    [investorName |-> Get(investorName),
     roi |-> Get(roi),
     returnPeriod |-> returnPeriod,
     durationMonths |-> Get(duration),
     maturityDate |-> Get(maturityDate(date, duration)),
     periodicInterestAmount |->
        IF interestAmount(amount, roi, returnPeriod) > 0
        THEN Some(interestAmount(amount, roi, returnPeriod)) ELSE None]

\* the categories the form's select offers: every item of every group
RECURSIVE AllItems(_)
AllItems(cats) ==
    IF cats = <<>> THEN {}
    ELSE {Head(cats).items[i] : i \in 1..Len(Head(cats).items)} \cup AllItems(Tail(cats))

FormCategoryOptions ==
    IF IsSome(catStore) THEN AllItems(Get(catStore)) \cap CategoryChoices ELSE {}

\* the options of the category select that are among the given choices
FormCategoryOptionsAmong(choices) ==
    IF IsSome(catStore) THEN AllItems(Get(catStore)) \cap choices ELSE {}

----------------------------------------------------------------------------
(* Projection of interest due dates                                        *)

\* monthsToAdd for a return period (0 for 'Maturity')
MonthsToAdd(returnPeriod) ==
    CASE returnPeriod = "Monthly"     -> 1
      [] returnPeriod = "Quarterly"   -> 3
      [] returnPeriod = "Half-Yearly" -> 6
      [] returnPeriod = "Yearly"      -> 12
      [] OTHER                        -> 0

\* ProjectDue with the overshoot fix (setDate(0)) forgotten
ProjectDueNoClamp(sY, sM, sD, months) == NewDateLocal(sY, sM - 1 + months, sD)

\* nextDate = new Date(sY, sM - 1 + months, sD);
\* if (nextDate.getDate() !== sD) nextDate.setDate(0);
ProjectDue(sY, sM, sD, months) ==
    LET nextDate == NewDateLocal(sY, sM - 1 + months, sD)
    IN  IF GetDate(nextDate) # sD THEN SetDateZero(nextDate) ELSE nextDate

----------------------------------------------------------------------------
(* Investor ledger (InvestorDashboard)                                     *)

HasInvestorDetails(t) == IsSome(t.investorDetails)

\* the interest amount generateInterestEntries uses: the stored periodic
\* amount, or the amount computed from principal, rate and period
LedgerInterestAmount(t) ==
    LET det == Get(t.investorDetails)
        stored == IF IsSome(det.periodicInterestAmount)
                  THEN Get(det.periodicInterestAmount) ELSE 0
        annual == (t.amount * det.roi) \div 100
    IN  IF stored # 0 THEN stored
        ELSE IF det.roi = 0 THEN 0
        ELSE CASE det.returnPeriod = "Monthly"     -> annual \div 12
               [] det.returnPeriod = "Quarterly"   -> annual \div 4
               [] det.returnPeriod = "Half-Yearly" -> annual \div 2
               [] det.returnPeriod = "Yearly"      -> annual
               [] OTHER -> (annual * det.durationMonths) \div 12

\* one virtual 'Interest Due' entry of the ledger
InterestEntry(t, count, amount, date, timestamp) ==
    [id |-> IF count = 0 THEN <<"int-maturity", t.id[2]>>
            ELSE <<"int", t.id[2], count>>,
     userId |-> t.userId,
     amount |-> amount,
     type |-> "EXPENSE",
     category |-> "Interest Due",
     date |-> date,
     timestamp |-> timestamp,
     count |-> count,
     isVirtual |-> TRUE,
     relatedTransactionId |-> t.id]

\* the while loop of generateInterestEntries, entered with the first
\* projected date: entries are pushed while nextDate <= today; after each
\* push the next date is projected and the loop is left when it lies past
\* the maturity date
RECURSIVE PeriodicEntries(_, _, _, _, _, _)
PeriodicEntries(t, amount, monthsToAdd, multiplier, nextDate, today) ==
    IF ~(nextDate <= today) THEN <<>>
    ELSE LET entry == InterestEntry(t, multiplier, amount,
                                    ToISODate(nextDate), nextDate)
             following == ProjectDue(t.date.y, t.date.m, t.date.d,
                                     monthsToAdd * (multiplier + 1))
         IN  IF following > NewDateISO(Get(t.investorDetails).maturityDate)
             THEN <<entry>>
             ELSE <<entry>> \o PeriodicEntries(t, amount, monthsToAdd,
                                               multiplier + 1, following, today)

\* generateInterestEntries(t)
generateInterestEntries(t) ==
    IF ~HasInvestorDetails(t) \/ Get(t.investorDetails).roi = 0 THEN <<>>
    ELSE LET det == Get(t.investorDetails)
             today == EndOfDay(now)
             amount == LedgerInterestAmount(t)
             mDate == NewDateISO(det.maturityDate)
         IN  IF amount <= 0 THEN <<>>
             ELSE IF det.returnPeriod = "Maturity"
             THEN (IF today >= mDate
                   THEN <<InterestEntry(t, 0, amount, det.maturityDate, mDate)>>
                   ELSE <<>>)
             ELSE IF MonthsToAdd(det.returnPeriod) = 0 THEN <<>>
             ELSE PeriodicEntries(t, amount, MonthsToAdd(det.returnPeriod), 1,
                      ProjectDue(t.date.y, t.date.m, t.date.d,
                                 MonthsToAdd(det.returnPeriod)),
                      today)

RECURSIVE SumAmounts(_)
SumAmounts(seq) ==
    IF seq = <<>> THEN 0 ELSE Head(seq).amount + SumAmounts(Tail(seq))

\* position of the account with the given key, 0 when there is none
AccountIndex(accounts, key) ==
    IF \E i \in 1..Len(accounts) : accounts[i].key = key
    THEN CHOOSE i \in 1..Len(accounts) : accounts[i].key = key
    ELSE 0

\* const key = investorName.toLowerCase()
AccountKey(investorName) == ToLowerCase(investorName)

\* the name under which the ledger files a transaction, '' when it is skipped
LedgerName(t) ==
    IF t.type = "INCOME" /\ HasInvestorDetails(t)
       /\ Get(t.investorDetails).investorName # ""
    THEN Get(t.investorDetails).investorName
    ELSE IF t.type = "EXPENSE" THEN t.category
    ELSE ""

\* accounts[key].transactions.push({ ...t, isVirtual: false })
AddReal(account, t) ==
    [account EXCEPT !.transactions = Append(@, t @@ [isVirtual |-> FALSE])]

\* AddAmounts forgetting the payments made
AddAmountsUnpaid(account, t, entries) ==
    IF t.type = "INCOME" /\ HasInvestorDetails(t)
    THEN [account EXCEPT !.transactions = @ \o entries,
                         !.totalPrincipal = @ + t.amount,
                         !.totalInterestAccrued = @ + SumAmounts(entries)]
    ELSE account

\* 'Add Amounts': principal and virtual interest entries of a loan taken,
\* or the payment made
AddAmounts(account, t, entries) ==
    IF t.type = "INCOME" /\ HasInvestorDetails(t)
    THEN [account EXCEPT !.transactions = @ \o entries,
                         !.totalPrincipal = @ + t.amount,
                         !.totalInterestAccrued = @ + SumAmounts(entries)]
    ELSE IF t.type = "EXPENSE"
    THEN [account EXCEPT !.totalPaid = @ + t.amount]
    ELSE account

\* members every plain object inherits from Object.prototype under a name
\* that is written in lower case: accounts[key] finds them under these keys
InheritedKeys == { "constructor", "__proto__" }

\* one iteration of the forEach of investorAccounts on the accounts built
\* so far. accounts is a plain object: under an inherited key accounts[key]
\* is truthy without any account having been created, no account is
\* created, accounts[key].transactions is undefined and its push throws a
\* TypeError, which ends the forEach
AccountStep(built, t) ==
    LET accounts == built.accounts
        investorName == LedgerName(t)
        key == AccountKey(investorName)
        idx0 == AccountIndex(accounts, key)
        isIncomeEntry == t.type = "INCOME" /\ HasInvestorDetails(t)
                         /\ Get(t.investorDetails).investorName # ""
        created == Append(accounts,
                     [key |-> key, name |-> investorName, totalPrincipal |-> 0,
                      totalInterestAccrued |-> 0, totalPaid |-> 0,
                      transactions |-> <<>>])
        acc0 == IF idx0 = 0 THEN created
                ELSE IF isIncomeEntry
                THEN [accounts EXCEPT ![idx0].name = investorName]
                ELSE accounts
        idx == IF idx0 = 0 THEN Len(created) ELSE idx0
    IN  IF investorName = "" THEN built
        ELSE IF key \in InheritedKeys THEN [built EXCEPT !.thrown = TRUE]
        ELSE [built EXCEPT !.accounts =
                 [acc0 EXCEPT ![idx] =
                     AddAmounts(AddReal(@, t), t, generateInterestEntries(t))]]

RECURSIVE AccountFold(_, _)
AccountFold(built, txs) ==
    IF txs = <<>> \/ built.thrown THEN built
    ELSE AccountFold(AccountStep(built, Head(txs)), Tail(txs))

\* the first pass of investorAccounts over the transactions
AccountsOf(txs) == AccountFold([thrown |-> FALSE, accounts |-> <<>>], txs)

RECURSIVE ListedAccounts(_)
ListedAccounts(accounts) ==
    IF accounts = <<>> THEN <<>>
    ELSE (IF Head(accounts).totalPrincipal > 0 \/ Head(accounts).totalPaid > 0
          THEN <<Head(accounts)>> ELSE <<>>) \o ListedAccounts(Tail(accounts))

\* investorAccounts: the accounts the investor dashboard lists; none is
\* listed when the first pass throws
investorAccounts(txs) ==
    IF AccountsOf(txs).thrown THEN <<>> ELSE ListedAccounts(AccountsOf(txs).accounts)

\* investorAccounts throws while the InvestorDashboard renders
investorAccountsThrows(txs) == AccountsOf(txs).thrown

\* the InvestorDashboard threw while rendering: no error boundary catches
\* the error, React unmounts the App and nothing is left on screen
AppUnmounted ==
    /\ currentView = "INVESTOR_DASHBOARD"
    /\ investorAccountsThrows(transactions)

\* the reducer of portfolioTotals leaving the payments out
AddTotalsUnpaid(acc, curr) ==
    [principal |-> acc.principal + curr.totalPrincipal,
     interest |-> acc.interest + curr.totalInterestAccrued,
     paid |-> acc.paid]

\* the reducer of portfolioTotals
AddTotals(acc, curr) ==
    [principal |-> acc.principal + curr.totalPrincipal,
     interest |-> acc.interest + curr.totalInterestAccrued,
     paid |-> acc.paid + curr.totalPaid]

\* (portfolioTotals.principal + portfolioTotals.interest) - portfolioTotals.paid
Outstanding(totals) == (totals.principal + totals.interest) - totals.paid

\* portfolioTotals: investorAccounts.reduce(...)
RECURSIVE portfolioTotals(_)
portfolioTotals(accounts) ==
    IF accounts = <<>> THEN [principal |-> 0, interest |-> 0, paid |-> 0]
    ELSE AddTotals(portfolioTotals(SubSeq(accounts, 1, Len(accounts) - 1)),
                   accounts[Len(accounts)])

\* totalOutstanding of the portfolio
totalOutstanding(txs) == Outstanding(portfolioTotals(investorAccounts(txs)))

\* netBalance of the selected investor's account
netBalance(selectedInvestor) ==
    (selectedInvestor.totalPrincipal + selectedInvestor.totalInterestAccrued)
        - selectedInvestor.totalPaid

----------------------------------------------------------------------------
(* Payment calendar (UpcomingMaturities)                                   *)

TimeFilters == { "30", "60", "90", "ALL" }

\* iterations the calendar's loop makes per transaction at most
SafetyLimit == 50

\* years the 'ALL' filter looks ahead
AllFilterYears == 5

\* endDate of the window for a time filter
WindowEnd(today, timeFilter) ==
    CASE timeFilter = "ALL" -> AddYears(today, AllFilterYears)
      [] timeFilter = "30"  -> AddDays(today, 30)
      [] timeFilter = "60"  -> AddDays(today, 60)
      [] timeFilter = "90"  -> AddDays(today, 90)

\* Math.ceil((date.getTime() - today.getTime()) / (1000 * 3600 * 24))
DayCount(date, today) == (date - today + MinutesPerDay - 1) \div MinutesPerDay

\* mDate of the calendar: new Date(maturityDate), then setHours(0, 0, 0, 0)
CalendarMaturity(t) == StartOfDay(NewDateISO(Get(t.investorDetails).maturityDate))

PrincipalEvent(t, mDate, today) ==
    [id |-> <<"maturity", t.id[2]>>,
     type |-> "PRINCIPAL",
     date |-> mDate,
     amount |-> t.amount,
     investorName |-> Get(t.investorDetails).investorName,
     transactionId |-> t.id,
     dayCount |-> DayCount(mDate, today)]

InterestEvent(t, nextDate, today) ==
    [id |-> <<"interest", t.id[2], nextDate>>,
     type |-> "INTEREST",
     date |-> nextDate,
     amount |-> Get(Get(t.investorDetails).periodicInterestAmount),
     investorName |-> Get(t.investorDetails).investorName,
     transactionId |-> t.id,
     dayCount |-> DayCount(nextDate, today)]

\* the while (safetyCounter < 50) loop of allEvents
RECURSIVE CalendarInterest(_, _, _, _, _, _, _, _)
CalendarInterest(t, monthsToAdd, multiplier, nextDate, safetyCounter, today, endDate, mDate) ==
    IF ~(safetyCounter < SafetyLimit) THEN <<>>
    ELSE IF nextDate > mDate THEN <<>>
    ELSE IF nextDate >= today /\ nextDate > endDate THEN <<>>
    ELSE (IF nextDate >= today THEN <<InterestEvent(t, nextDate, today)>>
          ELSE <<>>)
         \o CalendarInterest(t, monthsToAdd, multiplier + 1,
                ProjectDue(t.date.y, t.date.m, t.date.d,
                           monthsToAdd * (multiplier + 1)),
                safetyCounter + 1, today, endDate, mDate)

\* the events one transaction contributes to allEvents
CalendarEventsOf(t, today, endDate) ==
    IF ~HasInvestorDetails(t) THEN <<>>
    ELSE LET det == Get(t.investorDetails)
             mDate == CalendarMaturity(t)
             monthsToAdd == MonthsToAdd(det.returnPeriod)
         IN  (IF mDate >= today /\ mDate <= endDate
              THEN <<PrincipalEvent(t, mDate, today)>> ELSE <<>>)
             \o
             (IF IsSome(det.periodicInterestAmount)
                 /\ Get(det.periodicInterestAmount) # 0
                 /\ det.returnPeriod # "Maturity" /\ monthsToAdd > 0
              THEN CalendarInterest(t, monthsToAdd, 1,
                       ProjectDue(t.date.y, t.date.m, t.date.d, monthsToAdd),
                       0, today, endDate, mDate)
              ELSE <<>>)

RECURSIVE CalendarFold(_, _, _)
CalendarFold(txs, today, endDate) ==
    IF txs = <<>> THEN <<>>
    ELSE CalendarEventsOf(Head(txs), today, endDate)
         \o CalendarFold(Tail(txs), today, endDate)

\* allEvents of UpcomingMaturities for the selected time filter
allEvents(txs, timeFilter) ==
    CalendarFold(txs, StartOfDay(now), WindowEnd(StartOfDay(now), timeFilter))

----------------------------------------------------------------------------
(* Dashboard widget 'Upcoming Payments'                                    *)

\* days the widget looks ahead
WidgetDays == 30

\* matDate of the widget: the maturity date parsed from its local parts
WidgetMaturity(t) ==
    LET m == Get(t.investorDetails).maturityDate
    IN  StartOfDay(NewDateLocal(m.y, m.m - 1, m.d))

\* the fast-forward loop of the widget: while (nextDate < today) project
\* the date for the multiplier and advance the multiplier
RECURSIVE FastForward(_, _, _, _, _)
FastForward(t, monthsToAdd, multiplier, nextDate, today) ==
    IF ~(nextDate < today) THEN nextDate
    ELSE FastForward(t, monthsToAdd, multiplier + 1,
                     ProjectDue(t.date.y, t.date.m, t.date.d,
                                monthsToAdd * multiplier),
                     today)

\* the payments one transaction contributes to upcomingPayments
WidgetPaymentsOf(t, today, futureLimit) ==
    IF ~HasInvestorDetails(t) \/ t.type # "INCOME" THEN <<>>
    ELSE LET det == Get(t.investorDetails)
             matDate == WidgetMaturity(t)
             monthsToAdd == MonthsToAdd(det.returnPeriod)
             startDate == NewDateLocal(t.date.y, t.date.m - 1, t.date.d)
             nextDate == FastForward(t, monthsToAdd, 1, startDate, today)
         IN  (IF matDate >= today /\ matDate <= futureLimit
              THEN << [id |-> <<"mat", t.id[2]>>, originalTxId |-> t.id,
                       type |-> "MATURITY", date |-> matDate,
                       amount |-> t.amount, name |-> det.investorName] >>
              ELSE <<>>)
             \o
             (IF IsSome(det.periodicInterestAmount)
                 /\ Get(det.periodicInterestAmount) # 0
                 /\ det.returnPeriod # "Maturity" /\ monthsToAdd > 0
                 /\ nextDate <= futureLimit /\ nextDate <= matDate
              THEN << [id |-> <<"int", t.id[2], nextDate>>, originalTxId |-> t.id,
                       type |-> "INTEREST", date |-> nextDate,
                       amount |-> Get(det.periodicInterestAmount),
                       name |-> det.investorName] >>
              ELSE <<>>)

RECURSIVE WidgetFold(_, _, _)
WidgetFold(txs, today, futureLimit) ==
    IF txs = <<>> THEN <<>>
    ELSE WidgetPaymentsOf(Head(txs), today, futureLimit)
         \o WidgetFold(Tail(txs), today, futureLimit)

\* stable sort by date: payments.sort((a, b) => a.date.getTime() - b.date.getTime())
RECURSIVE InsertByDate(_, _)
InsertByDate(sorted, p) ==
    IF sorted = <<>> THEN <<p>>
    ELSE IF Head(sorted).date <= p.date
         THEN <<Head(sorted)>> \o InsertByDate(Tail(sorted), p)
         ELSE <<p>> \o sorted

RECURSIVE SortByDate(_)
SortByDate(seq) ==
    IF seq = <<>> THEN <<>>
    ELSE InsertByDate(SortByDate(SubSeq(seq, 1, Len(seq) - 1)), seq[Len(seq)])

\* upcomingPayments of the Dashboard
upcomingPayments(txs) ==
    SortByDate(WidgetFold(txs, StartOfDay(now), AddDays(now, WidgetDays)))

\* hasInvestments of the Dashboard
hasInvestments(txs) == \E i \in 1..Len(txs) : HasInvestorDetails(txs[i])

----------------------------------------------------------------------------
(* The App: state after construction                                       *)

\* noon, local time, of a calendar date
NoonOf(date) == NewDateLocal(date.y, date.m - 1, date.d) + MinutesPerDay \div 2

Init ==
    /\ tz \in TimeZones
    /\ now = NoonOf(AsOfDates[1])
    /\ txStore = None
    /\ catStore = None
    /\ nextId = 1
    /\ currentUser = None
    /\ currentView = "AUTH"
    /\ transactions = <<>>
    /\ txTypeToAdd = "EXPENSE"
    /\ txPreFill = None
    /\ userStore = Some(<< [id |-> <<"user", 0>>, name |-> "Kiran"] >>)
    /\ defaultCats = DEFAULT_CATEGORIES
    /\ lastCall = NoCall
    /\ categories = <<>>
    /\ sharesDefaults = FALSE
    /\ query = ""
    /\ response = None
    /\ loading = FALSE
    /\ aiMount = 0
    /\ inFlight = {}
    /\ callLog = NoCalls

----------------------------------------------------------------------------
(* The App: handlers                                                       *)

\* the AIView unmounts: its state is gone
AIViewGone ==
    /\ aiMount' = 0
    /\ query' = ""
    /\ response' = None
    /\ loading' = FALSE

\* a button of the navigation bar replaces the view: an AIView on screen
\* unmounts, a request it started stays in flight
LeaveView ==
    /\ IF currentView = "AI_ASSISTANT"
       THEN AIViewGone /\ UNCHANGED inFlight
       ELSE UNCHANGED aiVars
    /\ lastCall' = NoCall
    /\ UNCHANGED <<settingsVars, callLog>>

\* views that show the navigation bar (showNavBar)
NavBarViews == { "DASHBOARD", "INVESTOR_DASHBOARD", "REPORTS", "AI_ASSISTANT" }

\* String.prototype.trim on the texts typed into the 'new item' input
Trim(s) ==
    CASE s = " "      -> ""
      [] s = " asha " -> "asha"
      [] OTHER        -> s

\* saveUser(name): the list written to storage
SavedUsers(name) ==
    Append(getUsers, [id |-> <<"user", nextId>>, name |-> name, createdAt |-> now])

\* handleCreateUser of UserSelection: saveUser(newUserName.trim()), then
\* onUserSelected(user) and the App's effect on currentUser
handleCreateUser(name) ==
    /\ currentView = "AUTH"
    /\ IF Trim(name) = "" THEN UNCHANGED vars
       ELSE /\ userStore' = Some(SavedUsers(Trim(name)))
            /\ nextId' = nextId + 1
            /\ currentUser' = Some(<<"user", nextId>>)
            /\ transactions' = getTransactions(<<"user", nextId>>)
            /\ currentView' = "DASHBOARD"
            /\ lastCall' = [op |-> "saveUser"]
            /\ UNCHANGED <<tz, now, txStore, catStore, txTypeToAdd, txPreFill,
                           defaultCats, settingsVars, aiVars, callLog>>

\* handleUserSelected if the effect on currentUser did not reload the list
handleUserSelectedStale(user) ==
    /\ currentView = "AUTH"
    /\ currentUser' = Some(user.id)
    /\ currentView' = "DASHBOARD"
    /\ OutsideSettingsAndAI
    /\ UNCHANGED <<tz, now, txStore, catStore, nextId, txTypeToAdd, txPreFill,
                   userStore, defaultCats, transactions>>

\* handleUserSelected(user), followed by the effect on currentUser
handleUserSelected(user) ==
    /\ currentView = "AUTH"
    /\ currentUser' = Some(user.id)
    /\ transactions' = getTransactions(user.id)
    /\ currentView' = "DASHBOARD"
    /\ OutsideSettingsAndAI
    /\ UNCHANGED <<tz, now, txStore, catStore, nextId, txTypeToAdd, txPreFill,
                   userStore, defaultCats>>

\* handleLogout, followed by the effect on currentUser
handleLogout ==
    /\ currentView \in NavBarViews
    /\ ~AppUnmounted
    /\ currentUser' = None
    /\ currentView' = "AUTH"
    /\ LeaveView
    /\ UNCHANGED <<tz, now, txStore, catStore, nextId, transactions,
                   txTypeToAdd, txPreFill, userStore, defaultCats>>

\* onAddIncome / onAddExpense of the Dashboard; the form mounts and its
\* effect calls getCategories()
OpenForm(type) ==
    /\ currentView = "DASHBOARD"
    /\ txTypeToAdd' = type
    /\ txPreFill' = None
    /\ currentView' = "ADD_TRANSACTION"
    /\ catStore' = getCategories.store
    /\ OutsideSettingsAndAI
    /\ UNCHANGED <<tz, now, txStore, nextId, currentUser, transactions,
                   userStore, defaultCats>>

onAddIncome == OpenForm("INCOME")

onAddExpense == OpenForm("EXPENSE")

\* onCancel of the form
onCancel ==
    /\ currentView = "ADD_TRANSACTION"
    /\ txPreFill' = None
    /\ currentView' = "DASHBOARD"
    /\ OutsideSettingsAndAI
    /\ UNCHANGED <<tz, now, txStore, catStore, nextId, currentUser,
                   transactions, txTypeToAdd, userStore, defaultCats>>

\* onViewMaturities: the Dashboard button, shown when hasInvestments
onViewMaturities ==
    /\ currentView = "DASHBOARD"
    /\ hasInvestments(transactions)
    /\ currentView' = "MATURITIES"
    /\ OutsideSettingsAndAI
    /\ UNCHANGED <<tz, now, txStore, catStore, nextId, currentUser,
                   transactions, txTypeToAdd, txPreFill, userStore, defaultCats>>

\* the 'Investors' button of the navigation bar (and onViewInvestors);
\* pressed in the AIView it is onLeaveAI
onViewInvestors ==
    /\ currentView \in NavBarViews \ { "AI_ASSISTANT" }
    /\ ~AppUnmounted
    /\ currentView' = "INVESTOR_DASHBOARD"
    /\ OutsideSettingsAndAI
    /\ UNCHANGED <<tz, now, txStore, catStore, nextId, currentUser,
                   transactions, txTypeToAdd, txPreFill, userStore, defaultCats>>

\* onBack of the calendar, of the investor dashboard and of the reports,
\* 'Home' of the bar; in the AIView it is onLeaveAI, in the settings
\* onSettingsBack
onBack ==
    /\ currentView \in { "MATURITIES", "INVESTOR_DASHBOARD", "REPORTS" }
    /\ ~AppUnmounted
    /\ currentView' = "DASHBOARD"
    /\ OutsideSettingsAndAI
    /\ UNCHANGED <<tz, now, txStore, catStore, nextId, currentUser,
                   transactions, txTypeToAdd, txPreFill, userStore, defaultCats>>

\* the 'Reports' button of the navigation bar; the ReportView mounts and
\* its effect calls getCategories()
onViewReports ==
    /\ currentView \in NavBarViews \ { "REPORTS" }
    /\ ~AppUnmounted
    /\ currentView' = "REPORTS"
    /\ catStore' = getCategories.store
    /\ LeaveView
    /\ UNCHANGED <<tz, now, txStore, nextId, currentUser, transactions,
                   txTypeToAdd, txPreFill, userStore, defaultCats>>

\* the record of a call of ensureInvestorCategory(investorName): the list in
\* storage before it and after it
EnsureCall(investorName) ==
    [op |-> "ensureInvestorCategory", name |-> investorName, before |-> catStore,
     after |-> ensureInvestorCategory(investorName).store]

\* handleRecordPayment presetting the category 'Interest Payment'
handleRecordPaymentAsInterest(investorName) ==
    /\ currentView = "INVESTOR_DASHBOARD"
    /\ ~AppUnmounted
    /\ \E i \in 1..Len(investorAccounts(transactions)) :
          investorAccounts(transactions)[i].name = investorName
    /\ catStore' = getCategoriesOf(ensureInvestorCategory(investorName).store,
                                   ensureInvestorCategory(investorName).defaults).store
    /\ defaultCats' = ensureInvestorCategory(investorName).defaults
    /\ txTypeToAdd' = "EXPENSE"
    /\ txPreFill' = Some([category |-> "Interest Payment", note |-> "Interest Payment"])
    /\ currentView' = "ADD_TRANSACTION"
    /\ lastCall' = EnsureCall(investorName)
    /\ UNCHANGED <<tz, now, txStore, nextId, currentUser, transactions, userStore,
                   settingsVars, aiVars, callLog>>

\* handleRecordPayment(investorName), from the account of a listed investor;
\* the form mounts and its effect calls getCategories()
handleRecordPayment(investorName) ==
    /\ currentView = "INVESTOR_DASHBOARD"
    /\ ~AppUnmounted
    /\ \E i \in 1..Len(investorAccounts(transactions)) :
          investorAccounts(transactions)[i].name = investorName
    /\ catStore' = getCategoriesOf(ensureInvestorCategory(investorName).store,
                                   ensureInvestorCategory(investorName).defaults).store
    /\ defaultCats' = ensureInvestorCategory(investorName).defaults
    /\ txTypeToAdd' = "EXPENSE"
    /\ txPreFill' = Some([category |-> investorName, note |-> "Interest Payment"])
    /\ currentView' = "ADD_TRANSACTION"
    /\ lastCall' = EnsureCall(investorName)
    /\ UNCHANGED <<tz, now, txStore, nextId, currentUser, transactions, userStore,
                   settingsVars, aiVars, callLog>>

\* handleSubmit of the form left without saving: amount or category empty,
\* or investor details incomplete (the alert)
SubmitRejected(amount, category, investorName, roi, duration) ==
    \/ ~IsSome(amount)
    \/ ~IsSome(category)
    \/ /\ isInvestorFund(category)
       /\ (~IsSome(investorName) \/ ~IsSome(roi) \/ ~IsSome(duration))

\* handleSubmit of the form, with handleSaveTransaction as onSave:
\* ensureInvestorCategory, addTransaction, refreshTransactions, and the
\* return to the dashboard
handleSubmit(amount, category, date, investorName, roi, returnPeriod, duration) ==
    /\ currentView = "ADD_TRANSACTION"
    /\ IF SubmitRejected(amount, category, investorName, roi, duration)
       THEN UNCHANGED vars
       ELSE LET investorDetails ==
                    IF isInvestorFund(category)
                    THEN Some(BuildInvestorDetails(amount, date, investorName,
                                                   roi, returnPeriod, duration))
                    ELSE None
                ensured == IF isInvestorFund(category)
                           THEN ensureInvestorCategory(Get(investorName))
                           ELSE [store |-> catStore, defaults |-> defaultCats]
                newStore == addTransaction(
                               [userId |-> Get(currentUser),
                                type |-> txTypeToAdd,
                                amount |-> ParseAmount(Get(amount)),
                                category |-> Get(category),
                                paymentMode |-> "UPI",
                                date |-> date,
                                note |-> IF IsSome(txPreFill)
                                         THEN Get(txPreFill).note ELSE "",
                                investorDetails |-> investorDetails])
            IN  /\ catStore' = ensured.store
                /\ defaultCats' = ensured.defaults
                /\ IF IsSome(currentUser)
                   THEN /\ txStore' = Some(newStore)
                        /\ nextId' = nextId + 1
                        /\ transactions' =
                              TransactionsOf(newStore, Get(currentUser))
                        /\ txPreFill' = None
                        /\ currentView' = "DASHBOARD"
                   ELSE UNCHANGED <<txStore, nextId, transactions, txPreFill,
                                    currentView>>
                /\ lastCall' = IF isInvestorFund(category)
                               THEN EnsureCall(Get(investorName))
                               ELSE NoCall
                /\ UNCHANGED <<tz, now, currentUser, txTypeToAdd, userStore,
                               settingsVars, aiVars, callLog>>

\* time passes: the app is looked at on a later day
Tick ==
    /\ \E i \in 1..Len(AsOfDates) :
          /\ NoonOf(AsOfDates[i]) > now
          /\ now' = NoonOf(AsOfDates[i])
    /\ OutsideSettingsAndAI
    /\ UNCHANGED <<tz, txStore, catStore, nextId, currentUser, currentView,
                   transactions, txTypeToAdd, txPreFill, userStore, defaultCats>>

----------------------------------------------------------------------------
(* The settings view: CategorySettings (constants.ts) and the category     *)
(* functions of storageService.ts it calls                                 *)

\* saveCategories(categories): the storage content afterwards
saveCategories(cats) == Some(cats)

\* resetCategories(): the DEFAULT_CATEGORIES array is written and returned
resetCategories == [result |-> defaultCats, store |-> Some(defaultCats)]

\* the effect of CategorySettings: setCategories(getCategories())
MountSettings(got) ==
    /\ categories' = got.result
    /\ sharesDefaults' = got.fromDefault
    /\ catStore' = got.store

\* onOpenSettings of the Dashboard; CategorySettings mounts
onOpenSettings ==
    /\ currentView = "DASHBOARD"
    /\ currentView' = "SETTINGS"
    /\ MountSettings(getCategories)
    /\ lastCall' = [op |-> "getCategories", before |-> catStore,
                    result |-> getCategories.result]
    /\ UNCHANGED <<tz, now, txStore, nextId, currentUser, transactions,
                   txTypeToAdd, txPreFill, userStore, defaultCats, aiVars, callLog>>

\* newCats = [...categories] copies the array and not its groups: the items
\* of newCats[groupIdx] are changed in place, in the DEFAULT_CATEGORIES
\* group too when the list shares its groups; then saveChanges(newCats).
\* callLog counts the lists saved this way
EditGroup(groupIdx, items) ==
    /\ categories' = [categories EXCEPT ![groupIdx].items = items]
    /\ catStore' = saveCategories([categories EXCEPT ![groupIdx].items = items])
    /\ defaultCats' = IF sharesDefaults
                      THEN [defaultCats EXCEPT ![groupIdx].items = items]
                      ELSE defaultCats
    /\ callLog' = [callLog EXCEPT !.edits = @ + 1]
    /\ UNCHANGED <<tz, now, txStore, nextId, currentUser, currentView,
                   transactions, txTypeToAdd, txPreFill, userStore,
                   sharesDefaults, aiVars>>

\* handleAddItem(groupIdx), value being the text of the group's input
handleAddItem(groupIdx, value) ==
    /\ currentView = "SETTINGS"
    /\ groupIdx \in 1..Len(categories)
    /\ IF Trim(value) = "" THEN UNCHANGED vars
       ELSE /\ EditGroup(groupIdx, Append(categories[groupIdx].items, Trim(value)))
            /\ lastCall' = [op |-> "handleAddItem"]

\* handleDeleteItem(groupIdx, itemIdx), confirmed being the answer to
\* window.confirm
handleDeleteItem(groupIdx, itemIdx, confirmed) ==
    /\ currentView = "SETTINGS"
    /\ groupIdx \in 1..Len(categories)
    /\ itemIdx \in 1..Len(categories[groupIdx].items)
    /\ IF ~confirmed THEN UNCHANGED vars
       ELSE /\ EditGroup(groupIdx, RemoveAt(categories[groupIdx].items, itemIdx))
            /\ lastCall' = [op |-> "handleDeleteItem"]

\* saveEdit, editingItem being {groupIdx, itemIdx, value} as startEditing
\* and the edit input left it
saveEdit(groupIdx, itemIdx, value) ==
    /\ currentView = "SETTINGS"
    /\ groupIdx \in 1..Len(categories)
    /\ itemIdx \in 1..Len(categories[groupIdx].items)
    /\ EditGroup(groupIdx, [categories[groupIdx].items EXCEPT ![itemIdx] = value])
    /\ lastCall' = [op |-> "saveEdit"]

\* handleReset: setCategories(resetCategories()) when confirmed
handleReset(confirmed) ==
    /\ currentView = "SETTINGS"
    /\ IF ~confirmed THEN UNCHANGED vars
       ELSE /\ categories' = resetCategories.result
            /\ catStore' = resetCategories.store
            /\ sharesDefaults' = TRUE
            /\ lastCall' = [op |-> "handleReset"]
            /\ UNCHANGED <<tz, now, txStore, nextId, currentUser, currentView,
                           transactions, txTypeToAdd, txPreFill, userStore,
                           defaultCats, aiVars, callLog>>

\* onBack of CategorySettings: the view unmounts and its state is dropped
onSettingsBack ==
    /\ currentView = "SETTINGS"
    /\ currentView' = "DASHBOARD"
    /\ categories' = <<>>
    /\ sharesDefaults' = FALSE
    /\ lastCall' = NoCall
    /\ UNCHANGED <<tz, now, txStore, catStore, nextId, currentUser,
                   transactions, txTypeToAdd, txPreFill, userStore,
                   defaultCats, aiVars, callLog>>

----------------------------------------------------------------------------
(* The investor ledger under several transactions: the App's handlers with *)
(* the names, categories and amounts of a small portfolio                  *)

\* at most this many transactions are persisted under LedgerSpec
MaxLedgerTx == 3

\* investor names typed into the form
LedgerNames == { "Asha", "Constructor" }

\* categories picked for a plain transaction, among those the form offers
LedgerCategories == { "Asha", "asha", "Groceries" }

\* amounts of a loan taken and of a payment made, in rupees
LoanAmounts == { 1000 }
PaymentAmounts == { 400 }

\* the device is in India, a user exists and nothing else is stored
LedgerInit == Init /\ tz = 330

----------------------------------------------------------------------------
(* storageService.ts called directly: users and transactions of several    *)
(* users, starting from an empty localStorage                              *)

\* at most this many users and transactions are created under StorageSpec
MaxStoredTx == 2

UserNames == { "Kiran", "Meera" }

\* the ids of a list of transactions, in order
TxIds(txs) == [i \in 1..Len(txs) |-> txs[i].id]

\* a payment as the form hands it to addTransaction
NewPayment(userId, amount) ==
    [userId |-> userId, type |-> "EXPENSE", amount |-> ParseAmount(amount),
     category |-> "Groceries", paymentMode |-> "UPI",
     date |-> Date(2023, 12, 31), note |-> "", investorDetails |-> None]

\* updateTransaction(updatedTx): the storage content afterwards
UpdateUpsert(store, updatedTx) ==
    IF ~IsSome(store) THEN store
    ELSE IF IndexOf(TxIds(Get(store)), updatedTx.id) # 0
    THEN Some([Get(store) EXCEPT ![IndexOf(TxIds(Get(store)), updatedTx.id)] = updatedTx])
    ELSE Some(Append(Get(store), updatedTx))

UpdateResult(store, updatedTx) ==
    IF ~IsSome(store) THEN store
    ELSE IF IndexOf(TxIds(Get(store)), updatedTx.id) # 0
    THEN Some([Get(store) EXCEPT ![IndexOf(TxIds(Get(store)), updatedTx.id)] = updatedTx])
    ELSE store

\* deleteTransaction(id): the storage content afterwards
DeleteAlwaysWrites(store, id) ==
    IF ~IsSome(store) THEN Some(<<>>)
    ELSE Some(FilterSeq(Get(store), { t \in SeqToSet(Get(store)) : t.id # id }))

DeleteResult(store, id) ==
    IF ~IsSome(store) THEN store
    ELSE Some(FilterSeq(Get(store), { t \in SeqToSet(Get(store)) : t.id # id }))

\* storage keys the category functions own, and the App state, stay as they are
StorageOnly ==
    UNCHANGED <<tz, currentUser, currentView, transactions, txTypeToAdd,
                txPreFill, defaultCats, settingsVars, aiVars>>

\* saveUser(name)
saveUser(name) ==
    /\ userStore' = Some(SavedUsers(name))
    /\ nextId' = nextId + 1
    /\ lastCall' = [op |-> "saveUser"]
    /\ StorageOnly
    /\ UNCHANGED <<now, txStore, catStore, callLog>>

\* addTransaction(transaction) for a user: a payment of the given amount
CallAddTransaction(userId, amount) ==
    /\ txStore' = Some(addTransaction(NewPayment(userId, amount)))
    /\ nextId' = nextId + 1
    /\ lastCall' = [op |-> "addTransaction", userId |-> userId, before |-> txStore]
    /\ callLog' = [callLog EXCEPT !.added =
                      Append(@, addTransaction(NewPayment(userId, amount))[
                                   Len(ParsedTransactions) + 1])]
    /\ StorageOnly
    /\ UNCHANGED <<now, userStore, catStore>>

\* updateTransaction(updatedTx)
updateTransaction(updatedTx) ==
    /\ txStore' = UpdateResult(txStore, updatedTx)
    /\ lastCall' = [op |-> "updateTransaction", id |-> updatedTx.id,
                    before |-> txStore]
    /\ callLog' = [callLog EXCEPT !.updated = @ \cup {updatedTx.id}]
    /\ StorageOnly
    /\ UNCHANGED <<now, userStore, catStore, nextId>>

\* deleteTransaction(id)
deleteTransaction(id) ==
    /\ txStore' = DeleteResult(txStore, id)
    /\ lastCall' = [op |-> "deleteTransaction", id |-> id, before |-> txStore]
    /\ callLog' = [callLog EXCEPT !.deleted = @ \cup {id}]
    /\ StorageOnly
    /\ UNCHANGED <<now, userStore, catStore, nextId>>

\* getCategories() called for its effect on storage
CallGetCategories ==
    /\ catStore' = getCategories.store
    /\ lastCall' = [op |-> "getCategories", before |-> catStore,
                    result |-> getCategories.result]
    /\ StorageOnly
    /\ UNCHANGED <<now, userStore, txStore, nextId, callLog>>

\* an empty localStorage on a device in India
StorageInit ==
    /\ tz = 330
    /\ now = NoonOf(AsOfDates[1])
    /\ txStore = None
    /\ catStore = None
    /\ nextId = 1
    /\ currentUser = None
    /\ currentView = "AUTH"
    /\ transactions = <<>>
    /\ txTypeToAdd = "EXPENSE"
    /\ txPreFill = None
    /\ userStore = None
    /\ defaultCats = DEFAULT_CATEGORIES
    /\ lastCall = NoCall
    /\ categories = <<>>
    /\ sharesDefaults = FALSE
    /\ query = ""
    /\ response = None
    /\ loading = FALSE
    /\ aiMount = 0
    /\ inFlight = {}
    /\ callLog = NoCalls

\* the transactions an edit may write, and the ids a call may name
EditsOf(t) ==
    { [t EXCEPT !.amount = ParseAmount(999)],
      [t EXCEPT !.timestamp = NoonOf(AsOfDates[Len(AsOfDates)]) + 30] }
UnknownId == <<"tx", 0>>

StorageNext ==
    \/ \E name \in UserNames :
          /\ Len(getUsers) < MaxUsers
          /\ saveUser(name)
    \/ \E i \in 1..Len(getUsers), amount \in PaymentAmounts :
          /\ Len(callLog.added) < MaxStoredTx
          /\ CallAddTransaction(getUsers[i].id, amount)
    \/ \E i \in 1..Len(callLog.added) : \E updatedTx \in EditsOf(callLog.added[i]) :
          updateTransaction(updatedTx)
    \/ \E i \in 1..Len(getUsers) :
          updateTransaction([id |-> UnknownId, timestamp |-> now]
                               @@ NewPayment(getUsers[i].id, 999))
    \/ \E id \in { callLog.added[i].id : i \in 1..Len(callLog.added) } \cup {UnknownId} :
          deleteTransaction(id)
    \/ CallGetCategories
    \/ Tick /\ now' = NoonOf(AsOfDates[2])

StorageSpec == StorageInit /\ [][StorageNext]_vars

----------------------------------------------------------------------------
(* The assistant (geminiService.ts, AIView.tsx, the App's navigation)      *)

\* at most this many getFinancialAdvice calls are in flight, started by at
\* most this many AIViews
MaxRequests == 3
MaxMounts == 2

CouldNotGenerate == "Sorry, I couldn't generate an insight right now."
ConnectionTrouble ==
    "I'm having trouble connecting to the insights engine. Please check your internet connection."
FailedToGetResponse == "Failed to get response."

\* what ai.models.generateContent may do: answer with a text, answer with
\* an empty or an absent text, or fail
ServiceOutcomes ==
    { [kind |-> "text", text |-> "You spent 400 on groceries."],
      [kind |-> "text", text |-> " "],
      [kind |-> "text", text |-> ""],
      [kind |-> "none"],
      [kind |-> "failed"] }

\* getFinancialAdvice calling generateContent a second time when the first
\* call failed, and letting the second failure through
getFinancialAdviceRetrying(outcome) ==
    IF outcome.kind = "failed" THEN [resolved |-> FALSE, requests |-> 2]
    ELSE IF outcome.kind = "text" /\ outcome.text # ""
    THEN [resolved |-> TRUE, text |-> outcome.text, requests |-> 1]
    ELSE [resolved |-> TRUE, text |-> CouldNotGenerate, requests |-> 1]

\* getFinancialAdvice, for an outcome of its request: what its promise
\* settles to, and how often it has called generateContent by then (the
\* one await of the try block; the catch block returns the fallback
\* without calling again)
getFinancialAdvice(outcome) ==
    IF outcome.kind = "failed"
    THEN [resolved |-> TRUE, text |-> ConnectionTrouble, requests |-> 1]
    ELSE IF outcome.kind = "text" /\ outcome.text # ""
    THEN [resolved |-> TRUE, text |-> outcome.text, requests |-> 1]
    ELSE [resolved |-> TRUE, text |-> CouldNotGenerate, requests |-> 1]

\* handleAsk after the await: the text handed to setResponse
ResponseFor(advice) ==
    IF advice.resolved THEN advice.text ELSE FailedToGetResponse

\* query.trim() for the values the input takes
Queries == { "", " ", "Summarize my spending habits" }
TrimQuery(q) == IF q = " " THEN "" ELSE q

\* a getFinancialAdvice call in flight is known by a number and by the
\* label of the AIView that made it; numbers and labels are those no call in
\* flight uses
Unused(taken) == CHOOSE n \in 1..(Cardinality(taken) + 1) : n \notin taken /\ \A m \in 1..(n - 1) : m \in taken
FreshRequest == Unused({ r.id : r \in inFlight })
FreshMount == Unused({ r.mount : r \in inFlight })

\* the AIView's own state when it is not on screen
AppUnchangedByAI ==
    UNCHANGED <<tz, now, txStore, catStore, nextId, currentUser, transactions,
                txTypeToAdd, txPreFill, userStore, defaultCats, settingsVars>>

\* 'AI' of the navigation bar: a new AIView mounts with its initial state
onOpenAI ==
    /\ currentView \in NavBarViews \ { "AI_ASSISTANT" }
    /\ ~AppUnmounted
    /\ currentView' = "AI_ASSISTANT"
    /\ aiMount' = FreshMount
    /\ query' = ""
    /\ response' = None
    /\ loading' = FALSE
    /\ lastCall' = [op |-> "onOpenAI"]
    /\ AppUnchangedByAI
    /\ UNCHANGED <<inFlight, callLog>>

\* onBack of the AIView, 'Home' and 'Investors' of the bar: the AIView
\* unmounts; a request it started stays in flight
onLeaveAI(view) ==
    /\ currentView = "AI_ASSISTANT"
    /\ currentView' = view
    /\ AIViewGone
    /\ lastCall' = [op |-> "onLeaveAI"]
    /\ AppUnchangedByAI
    /\ UNCHANGED <<inFlight, callLog>>

\* setQuery(value): typing (the input is disabled while loading) or a
\* suggestion (shown while there is no response and nothing is loading)
setQuery(value) ==
    /\ currentView = "AI_ASSISTANT"
    /\ ~loading
    /\ query' = value
    /\ lastCall' = [op |-> "setQuery"]
    /\ AppUnchangedByAI
    /\ UNCHANGED <<currentView, response, loading, aiMount, inFlight, callLog>>

\* handleAsk if the form could be submitted while loading
handleAskWhileLoading ==
    /\ currentView = "AI_ASSISTANT"
    /\ TrimQuery(query) # ""
    /\ loading' = TRUE
    /\ response' = None
    /\ inFlight' = inFlight \cup { [id |-> FreshRequest, mount |-> aiMount] }
    /\ lastCall' = [op |-> "handleAsk", hadResponse |-> IsSome(response),
                    before |-> inFlight]
    /\ AppUnchangedByAI
    /\ UNCHANGED <<currentView, query, aiMount, callLog>>

\* handleAsk up to its await; the submit button is disabled while loading
\* or while the trimmed query is empty
handleAsk ==
    /\ currentView = "AI_ASSISTANT"
    /\ ~loading
    /\ TrimQuery(query) # ""
    /\ loading' = TRUE
    /\ response' = None
    /\ inFlight' = inFlight \cup { [id |-> FreshRequest, mount |-> aiMount] }
    /\ lastCall' = [op |-> "handleAsk", hadResponse |-> IsSome(response),
                    before |-> inFlight]
    /\ AppUnchangedByAI
    /\ UNCHANGED <<currentView, query, aiMount, callLog>>

\* the request of a call settles, getFinancialAdvice returns and handleAsk
\* resumes after its await; the state setters of an AIView that is no
\* longer mounted have no effect
settle(request, outcome) ==
    /\ request \in inFlight
    /\ inFlight' = inFlight \ {request}
    /\ IF request.mount = aiMount
       THEN /\ response' = Some(ResponseFor(getFinancialAdvice(outcome)))
            /\ loading' = FALSE
       ELSE UNCHANGED <<response, loading>>
    /\ lastCall' = [op |-> "settle", request |-> request, outcome |-> outcome,
                    advice |-> getFinancialAdvice(outcome),
                    mounted |-> request.mount = aiMount]
    /\ AppUnchangedByAI
    /\ UNCHANGED <<currentView, query, aiMount, callLog>>


----------------------------------------------------------------------------
(* Inputs of the whole App                                                 *)

\* what is typed into the settings, the items deleted and renamed there,
\* and what is typed into the AIView
AppTypedItems == { " asha " }
DeletedItems == { "SIP (Regular)" }
RenamedItems == { "Salary" }
NewNames == { "SIP (Gold)" }
AppQueries == { "Summarize my spending habits" }

\* the form's date and duration fields under Spec
AppStartDate == Date(2023, 12, 31)
AppDurations == { 3 }

----------------------------------------------------------------------------
(* The category list through a session: the settings screen, the stored    *)
(* list and its migration, starting from an empty storage or from a list   *)
(* an earlier version of the app stored                                    *)

\* lists stored before the 'Investments' group existed
LegacyCategories ==
    { << [group |-> "Investor Payments",
          items |-> <<"Interest Payment", "Principal Return">>],
         [group |-> "Personal",
          items |-> <<"Salary", "Investor Funds", "SIP (Regular)", "SIP (Gold)">>] >>,
      << [group |-> "Personal",
          items |-> <<"Investor Funds", "Salary", "SIP (Gold)">>] >>,
      << [group |-> "Real Estate Projects", items |-> <<"Galaxy">>],
         [group |-> "Investor Payments", items |-> <<"Investor Funds">>] >> }

\* the groups edited in the settings and the texts typed into their inputs
EditedGroups == { "Personal" }
TypedItems == { " ", "SIP (Regular)", "Investor Funds" }

CategoryInit ==
    /\ tz = 330
    /\ now = NoonOf(AsOfDates[1])
    /\ txStore = None
    /\ catStore \in {None} \cup { Some(stored) : stored \in LegacyCategories }
    /\ nextId = 1
    /\ currentUser = None
    /\ currentView = "AUTH"
    /\ transactions = <<>>
    /\ txTypeToAdd = "EXPENSE"
    /\ txPreFill = None
    /\ userStore = Some(<<[id |-> <<"user", 0>>, name |-> "Kiran"]>>)
    /\ defaultCats = DEFAULT_CATEGORIES
    /\ lastCall = NoCall
    /\ categories = <<>>
    /\ sharesDefaults = FALSE
    /\ query = ""
    /\ response = None
    /\ loading = FALSE
    /\ aiMount = 0
    /\ inFlight = {}
    /\ callLog = NoCalls


----------------------------------------------------------------------------
(* ensureInvestorCategory on the lists the settings screen leaves in        *)
(* storage                                                                 *)

\* investor names the form and 'Record Interest Payment' pass to
\* ensureInvestorCategory
EnsuredNames == { "Asha", "asha" }


----------------------------------------------------------------------------
(* The transaction form with amounts that are not positive: both versions  *)
(* of TransactionForm.handleSubmit with handleSaveTransaction as onSave    *)

\* at most this many transactions are saved under FormSpec
MaxFormTx == 2

\* texts of the number input 'amount', by the number parseFloat gives; the
\* input has type="number" and no min, so it accepts zero and negatives
FormAmounts == { 0 - 5, 0, 1000 }

\* categories picked in the form
FormCategories == { "Groceries", "Salary" }

\* handleSubmit of TransactionForm.tsx left without saving:
\* !amount || isNaN(val) || val <= 0 || !category
StrictRejected(amount, category) ==
    \/ ~IsSome(amount)
    \/ ParseAmount(Get(amount)) <= 0
    \/ ~IsSome(category)

\* handleSubmit of TransactionForm.tsx (the version without investor
\* details), with handleSaveTransaction as onSave
handleSubmitStrict(amount, category, date) ==
    /\ currentView = "ADD_TRANSACTION"
    /\ IF StrictRejected(amount, category) \/ ~IsSome(currentUser)
       THEN UNCHANGED vars
       ELSE /\ txStore' = Some(addTransaction(
                               [userId |-> Get(currentUser),
                                type |-> txTypeToAdd,
                                amount |-> ParseAmount(Get(amount)),
                                category |-> Get(category),
                                paymentMode |-> "UPI",
                                date |-> date,
                                note |-> "",
                                investorDetails |-> None]))
            /\ nextId' = nextId + 1
            /\ transactions' = TransactionsOf(Get(txStore'), Get(currentUser))
            /\ txPreFill' = None
            /\ currentView' = "DASHBOARD"
            /\ lastCall' = [op |-> "handleSubmitStrict"]
            /\ UNCHANGED <<tz, now, catStore, currentUser, txTypeToAdd,
                           userStore, defaultCats, settingsVars, aiVars, callLog>>


----------------------------------------------------------------------------
(* Sessions of several users                                               *)

\* at most this many transactions are saved under SessionSpec
MaxSessionTx == 3


----------------------------------------------------------------------------
(* Payments recorded from an investor's account: the ledger with the form  *)
(* saved as 'Record Interest Payment' opened it, the category left alone   *)

\* handleSubmit of the form opened by handleRecordPayment, the category
\* still the one of initialData
SavePrefilled(amount) ==
    /\ IsSome(txPreFill)
    /\ handleSubmit(Some(amount), Some(Get(txPreFill).category),
                    Date(2023, 12, 31), None, None, "Monthly", None)


----------------------------------------------------------------------------
(* The steps of the App, by the inputs they are taken with. Every          *)
(* specification below is made of all of them: the user selection and the  *)
(* navigation, the form, the investor dashboard, the settings and the      *)
(* assistant; the specifications differ in the inputs and in the bounds.   *)

\* outside AISpec at most this many getFinancialAdvice calls are in
\* flight, started by at most this many AIViews
MaxAppMounts == 1
MaxAppRequests == 1

\* what generateContent does outside AISpec
AppOutcomes == { [kind |-> "text", text |-> "You spent 400 on groceries."],
                 [kind |-> "failed"] }

\* what a run has written so far: the ids drawn from crypto.randomUUID (one
\* for each profile created and each transaction saved) and the edited
\* lists the settings saved
Writes == (nextId - 1) + callLog.edits

\* the user selection (with the given names typed into 'Create New
\* Profile'), the navigation bar, the Dashboard's buttons and the way back
\* from each view
AppNavigation(names, maxWrites, maxMounts) ==
    \/ \E i \in 1..Len(getUsers) : handleUserSelected(getUsers[i])
    \/ \E name \in names :
          /\ Len(getUsers) < MaxUsers
          /\ Writes < maxWrites
          /\ handleCreateUser(name)
    \/ handleLogout
    \/ onAddIncome
    \/ onAddExpense
    \/ onCancel
    \/ onViewInvestors
    \/ onViewMaturities
    \/ onBack
    \/ onViewReports
    \/ onOpenSettings
    \/ onSettingsBack
    \/ /\ FreshMount <= maxMounts
       /\ onOpenAI
    \/ \E view \in { "DASHBOARD", "INVESTOR_DASHBOARD" } : onLeaveAI(view)

\* 'Record Interest Payment' of a listed account
RecordPayment(names) == \E name \in names : handleRecordPayment(name)

\* handleSubmit of the form with the investor section hidden: its fields
\* keep their initial values
PlainSubmit(maxTx, maxWrites, types, amounts, choices, dates) ==
    \E amount \in amounts, category \in choices, date \in dates :
       /\ Len(ParsedTransactions) < maxTx
       /\ Writes < maxWrites
       /\ txTypeToAdd \in types
       /\ handleSubmit(amount, category, date, None, None, "Monthly", None)

\* handleSubmit of the form with the category 'Investor Funds', which the
\* select offers when the stored list has it
InvestorSubmit(maxTx, maxWrites, types, amounts, dates, names, rois, periods, durations) ==
    \E amount \in amounts, date \in dates, investorName \in names,
       roi \in rois, returnPeriod \in periods, duration \in durations :
       /\ Len(ParsedTransactions) < maxTx
       /\ Writes < maxWrites
       /\ txTypeToAdd \in types
       /\ FormCategoryOptionsAmong({"Investor Funds"}) # {}
       /\ handleSubmit(amount, Some("Investor Funds"), date, investorName,
                       roi, returnPeriod, duration)

\* the edits of the settings view: items typed into the inputs of the
\* given groups, items deleted and renamed in the groups edited, and the
\* reset
SettingsEdits(maxWrites, addGroups, typed, editGroups, deleted, renamed, newNames) ==
    \/ \E groupIdx \in 1..Len(categories), value \in typed :
          /\ Writes < maxWrites
          /\ categories[groupIdx].group \in addGroups
          /\ handleAddItem(groupIdx, value)
    \/ \E groupIdx \in 1..Len(categories), confirmed \in BOOLEAN :
          \E itemIdx \in 1..Len(categories[groupIdx].items) :
             /\ Writes < maxWrites
             /\ categories[groupIdx].group \in editGroups
             /\ categories[groupIdx].items[itemIdx] \in deleted
             /\ handleDeleteItem(groupIdx, itemIdx, confirmed)
    \/ \E groupIdx \in 1..Len(categories), value \in newNames :
          \E itemIdx \in 1..Len(categories[groupIdx].items) :
             /\ Writes < maxWrites
             /\ categories[groupIdx].group \in editGroups
             /\ categories[groupIdx].items[itemIdx] \in renamed
             /\ saveEdit(groupIdx, itemIdx, value)
    \/ \E confirmed \in BOOLEAN : handleReset(confirmed)

\* the AIView: typing, asking, and the requests settling
Assistant(queries, maxRequests, outcomes) ==
    \/ \E value \in queries : setQuery(value)
    \/ /\ Cardinality(inFlight) < maxRequests
       /\ handleAsk
    \/ \E request \in inFlight, outcome \in outcomes : settle(request, outcome)

\* the groups of the default list
GroupsOf(cats) == { cats[i].group : i \in 1..Len(cats) }
AllGroups == GroupsOf(DEFAULT_CATEGORIES)

\* the app is looked at again on the last of the days
TickToLastDay == Tick /\ now' = NoonOf(AsOfDates[Len(AsOfDates)])

\* the form as Spec fills it in: one amount, one date, one investor
AppPlainSubmit(maxTx, maxWrites) ==
    PlainSubmit(maxTx, maxWrites, {"INCOME", "EXPENSE"}, Optional(Amounts),
                Optional(FormCategoryOptions \ {"Investor Funds"}), {AppStartDate})

AppInvestorSubmit(maxTx, maxWrites) ==
    InvestorSubmit(maxTx, maxWrites, {"INCOME", "EXPENSE"}, Optional(Amounts),
                   {AppStartDate}, Optional(InvestorNames), Optional(Rois),
                   {"Monthly"}, Optional(AppDurations))

\* the settings as Spec edits them
AppEdits(maxWrites) ==
    SettingsEdits(maxWrites, {"Investor Payments"}, AppTypedItems, AllGroups,
                  DeletedItems, RenamedItems, NewNames)

----------------------------------------------------------------------------
(* The whole App with one transaction                                      *)

\* at most this many profiles, transactions and edited lists are written
\* under Spec
MaxAppWrites == 3

\* the device is in India, a user exists and nothing else is stored
AppInit == Init /\ tz = 330

Next ==
    \/ AppNavigation(NewUserNames \cup BlankNames, MaxAppWrites, MaxAppMounts)
    \/ RecordPayment(InvestorNames \cup CategoryChoices)
    \/ AppPlainSubmit(MaxTx, MaxAppWrites)
    \/ AppInvestorSubmit(MaxTx, MaxAppWrites)
    \/ TickToLastDay
    \/ AppEdits(MaxAppWrites)
    \/ Assistant(AppQueries, MaxAppRequests, AppOutcomes)

Spec == AppInit /\ [][Next]_vars

----------------------------------------------------------------------------
(* The form, the dashboards and the calendar over the full range of the    *)
(* form's fields and in three time zones                                   *)

\* at most this many profiles, transactions and edited lists are written
\* under CalendarSpec
MaxCalendarWrites == 1

CalendarNext ==
    \/ AppNavigation(NewUserNames \cup BlankNames, MaxCalendarWrites, MaxAppMounts)
    \/ RecordPayment(InvestorNames \cup CategoryChoices)
    \/ PlainSubmit(MaxTx, MaxCalendarWrites, {"INCOME", "EXPENSE"}, Optional(Amounts),
                   Optional(FormCategoryOptions \ {"Investor Funds"}),
                   StartDates)
    \/ InvestorSubmit(MaxTx, MaxCalendarWrites, {"INCOME"}, Optional(Amounts),
                      StartDates, Optional(InvestorNames), Optional(Rois),
                      ReturnPeriods, Optional(Durations))
    \/ Tick
    \/ AppEdits(MaxCalendarWrites)
    \/ Assistant(AppQueries, MaxAppRequests, AppOutcomes)

CalendarSpec == Init /\ [][CalendarNext]_vars

----------------------------------------------------------------------------
(* The investor ledger: loans of several investors and payments to them    *)

\* at most this many profiles, transactions and edited lists are written
\* under LedgerSpec and PaymentSpec
MaxLedgerWrites == 3

LedgerNext ==
    \/ AppNavigation(NewUserNames \cup BlankNames, MaxLedgerWrites, MaxAppMounts)
    \/ RecordPayment(LedgerNames \cup LedgerCategories)
    \/ PlainSubmit(MaxLedgerTx, MaxLedgerWrites, {"EXPENSE"},
                   { Some(amount) : amount \in PaymentAmounts },
                   { Some(category) :
                       category \in FormCategoryOptionsAmong(LedgerCategories) },
                   {AppStartDate})
    \/ InvestorSubmit(MaxLedgerTx, MaxLedgerWrites, {"INCOME"},
                      { Some(amount) : amount \in LoanAmounts }, {AppStartDate},
                      { Some(name) : name \in LedgerNames }, {Some(12)},
                      {"Monthly"}, {Some(3)})
    \/ TickToLastDay
    \/ AppEdits(MaxLedgerWrites)
    \/ Assistant(AppQueries, MaxAppRequests, AppOutcomes)

LedgerSpec == LedgerInit /\ [][LedgerNext]_vars

\* the ledger with the form saved as 'Record Interest Payment' opened it
PaymentNext ==
    \/ LedgerNext
    \/ \E amount \in PaymentAmounts :
          /\ Len(ParsedTransactions) < MaxLedgerTx
          /\ Writes < MaxLedgerWrites
          /\ SavePrefilled(amount)

PaymentSpec == LedgerInit /\ [][PaymentNext]_vars

----------------------------------------------------------------------------
(* The assistant asked several times, from several AIViews                 *)

\* at most this many profiles, transactions and edited lists are written
\* under AISpec
MaxAIWrites == 1

AINext ==
    \/ AppNavigation(NewUserNames \cup BlankNames, MaxAIWrites, MaxMounts)
    \/ RecordPayment(InvestorNames \cup CategoryChoices)
    \/ AppPlainSubmit(MaxTx, MaxAIWrites)
    \/ AppInvestorSubmit(MaxTx, MaxAIWrites)
    \/ TickToLastDay
    \/ AppEdits(MaxAIWrites)
    \/ Assistant(Queries, MaxRequests, ServiceOutcomes)

AISpec == AppInit /\ [][AINext]_vars

----------------------------------------------------------------------------
(* The category list: the lists earlier versions stored, items typed into  *)
(* 'Personal', and two spellings of an investor's name                     *)

\* at most this many profiles, transactions and edited lists are written
\* under CategorySpec
MaxCategoryWrites == 2

CategoryNext ==
    \/ AppNavigation(NewUserNames \cup BlankNames, MaxCategoryWrites, MaxAppMounts)
    \/ RecordPayment(EnsuredNames \cup CategoryChoices)
    \/ AppPlainSubmit(MaxTx, MaxCategoryWrites)
    \/ InvestorSubmit(MaxTx, MaxCategoryWrites, {"INCOME", "EXPENSE"},
                      Optional(Amounts), {AppStartDate}, Optional(EnsuredNames),
                      Optional(Rois), {"Monthly"}, Optional(AppDurations))
    \/ TickToLastDay
    \/ SettingsEdits(MaxCategoryWrites, EditedGroups, TypedItems, EditedGroups,
                     DeletedItems, RenamedItems, NewNames)
    \/ Assistant(AppQueries, MaxAppRequests, AppOutcomes)

CategorySpec == CategoryInit /\ [][CategoryNext]_vars

----------------------------------------------------------------------------
(* The form with amounts that are not positive                             *)

\* at most this many profiles, transactions and edited lists are written
\* under FormSpec
MaxFormWrites == 2

FormNext ==
    \/ AppNavigation(NewUserNames \cup BlankNames, MaxFormWrites, MaxAppMounts)
    \/ RecordPayment(InvestorNames \cup CategoryChoices \cup FormCategories)
    \/ PlainSubmit(MaxFormTx, MaxFormWrites, {"INCOME", "EXPENSE"},
                   Optional(FormAmounts),
                   Optional(FormCategoryOptionsAmong(FormCategories)),
                   {AppStartDate})
    \/ \E amount \in Optional(FormAmounts),
          category \in Optional(FormCategoryOptionsAmong(FormCategories)) :
          /\ Len(ParsedTransactions) < MaxFormTx
          /\ Writes < MaxFormWrites
          /\ handleSubmitStrict(amount, category, AppStartDate)
    \/ AppInvestorSubmit(MaxFormTx, MaxFormWrites)
    \/ TickToLastDay
    \/ AppEdits(MaxFormWrites)
    \/ Assistant(AppQueries, MaxAppRequests, AppOutcomes)

FormSpec == LedgerInit /\ [][FormNext]_vars

----------------------------------------------------------------------------
(* Sessions of two users, one of them created in the session               *)

\* at most this many profiles, transactions and edited lists are written
\* under SessionSpec
MaxSessionWrites == 3

SessionNext ==
    \/ AppNavigation(NewUserNames \cup BlankNames, MaxSessionWrites, MaxAppMounts)
    \/ RecordPayment(InvestorNames \cup CategoryChoices)
    \/ PlainSubmit(MaxSessionTx, MaxSessionWrites, {"EXPENSE"},
                   { Some(amount) : amount \in PaymentAmounts },
                   { Some(category) :
                       category \in FormCategoryOptionsAmong({"Groceries"}) },
                   {AppStartDate})
    \/ InvestorSubmit(MaxSessionTx, MaxSessionWrites, {"INCOME"},
                      { Some(amount) : amount \in LoanAmounts }, {AppStartDate},
                      { Some(name) : name \in InvestorNames }, {Some(12)},
                      {"Monthly"}, {Some(3)})
    \/ TickToLastDay
    \/ AppEdits(MaxSessionWrites)
    \/ Assistant(AppQueries, MaxAppRequests, AppOutcomes)

SessionSpec == AppInit /\ [][SessionNext]_vars

----------------------------------------------------------------------------
(* Reference calendar arithmetic the claims are stated with                *)

Min(a, b) == IF a <= b THEN a ELSE b

\* date + n calendar months, the day clamped to the last day of the month
AddMonthsClamped(date, n) ==
    LET total == date.y * 12 + (date.m - 1) + n
        yy == total \div 12
        mm == (total % 12) + 1
    IN  [y |-> yy, m |-> mm, d |-> Min(date.d, DaysInMonth(yy, mm))]

DayNumber(date) == DaysFromCivil(date.y, date.m, date.d)

\* the local calendar date of an instant, and whether it is a local midnight
LocalDate(inst) == CivilFromDays((inst + tz) \div MinutesPerDay)
IsLocalMidnight(inst) == (inst + tz) % MinutesPerDay = 0

\* the day on which the app is looked at
AsOfDay == (now + tz) \div MinutesPerDay

\* transactions carrying investor details: persisted, and shown
StoredInvestorTxs ==
    { t \in SeqToSet(ParsedTransactions) : HasInvestorDetails(t) }
ShownInvestorTxs == { t \in SeqToSet(transactions) : HasInvestorDetails(t) }

IsPeriodic(t) == Get(t.investorDetails).returnPeriod # "Maturity"

\* the events of one transaction in the three projections
LedgerEntriesOf(t) == SeqToSet(generateInterestEntries(t))
CalendarInterestOf(t, f) ==
    { e \in SeqToSet(allEvents(transactions, f)) :
        e.type = "INTEREST" /\ e.transactionId = t.id }
CalendarPrincipalOf(t, f) ==
    { e \in SeqToSet(allEvents(transactions, f)) :
        e.type = "PRINCIPAL" /\ e.transactionId = t.id }
WidgetInterestOf(t) ==
    { p \in SeqToSet(upcomingPayments(transactions)) :
        p.type = "INTEREST" /\ p.originalTxId = t.id }

----------------------------------------------------------------------------
(* C1: the maturity date stored for an investor fund is the start date     *)
(* plus the duration in calendar months, the day-of-month clamped to the   *)
(* last day of the target month (Jan 31 + 3 months is Apr 30, not May 1).  *)
C1_MaturityClamped ==
    \A t \in StoredInvestorTxs :
        Get(t.investorDetails).maturityDate
            = AddMonthsClamped(t.date, Get(t.investorDetails).durationMonths)

----------------------------------------------------------------------------
(* C2: the N-th projected interest due date of the ledger and every        *)
(* interest event of the calendar lies N periods of calendar months after  *)
(* the start date, on day min(start day, last day of that month), computed *)
(* from the start date and not from the previous occurrence.               *)
C2_DueDatesClamped ==
    \A t \in ShownInvestorTxs :
        LET p == MonthsToAdd(Get(t.investorDetails).returnPeriod) IN
        IsPeriodic(t) =>
          /\ \A e \in LedgerEntriesOf(t) :
                /\ e.count >= 1
                /\ IsLocalMidnight(e.timestamp)
                /\ LocalDate(e.timestamp) = AddMonthsClamped(t.date, e.count * p)
          /\ \A f \in TimeFilters : \A e \in CalendarInterestOf(t, f) :
                /\ IsLocalMidnight(e.date)
                /\ \E n \in 1..SafetyLimit :
                      LocalDate(e.date) = AddMonthsClamped(t.date, n * p)

\* C2 witness: a monthly investment started on Jan 31 2020 whose ledger
\* holds #1 on Feb 29 and #2 on Mar 31, and whose calendar shows a clamped
\* occurrence (Feb 29 2024)
C2_Witness ==
    \E t \in ShownInvestorTxs :
        /\ t.date = Date(2020, 1, 31)
        /\ Get(t.investorDetails).returnPeriod = "Monthly"
        /\ \E e1, e2 \in LedgerEntriesOf(t) :
              /\ e1.count = 1 /\ LocalDate(e1.timestamp) = Date(2020, 2, 29)
              /\ e2.count = 2 /\ LocalDate(e2.timestamp) = Date(2020, 3, 31)
        /\ \E e \in CalendarInterestOf(t, "ALL") :
              LocalDate(e.date) = Date(2024, 2, 29)

----------------------------------------------------------------------------
(* C3: no interest-due event of the ledger, of the calendar or of the      *)
(* dashboard widget is dated later than the transaction's maturity date,   *)
(* the first occurrence of a duration shorter than one period included.    *)
C3_NoInterestAfterMaturity ==
    \A t \in ShownInvestorTxs :
        LET mDay == DayNumber(Get(t.investorDetails).maturityDate) IN
        IsPeriodic(t) =>
          /\ t.type = "INCOME" =>
                \A e \in LedgerEntriesOf(t) : LocalDay(e.timestamp) <= mDay
          /\ \A f \in TimeFilters : \A e \in CalendarInterestOf(t, f) :
                LocalDay(e.date) <= mDay
          /\ \A p \in WidgetInterestOf(t) : LocalDay(p.date) <= mDay

----------------------------------------------------------------------------
(* C4: for a periodic investment lasting a whole number k >= 1 of periods, *)
(* looked at on or after its maturity date, the ledger projection holds    *)
(* exactly k entries, numbered #1..#k in increasing date order, the        *)
(* occurrence on the maturity date included.                               *)
C4_ExactlyKEntries ==
    \A t \in ShownInvestorTxs :
        LET det == Get(t.investorDetails)
            p == MonthsToAdd(det.returnPeriod)
            entries == generateInterestEntries(t)
        IN  ( /\ t.type = "INCOME"
              /\ IsPeriodic(t)
              /\ det.durationMonths % p = 0
              /\ det.durationMonths \div p >= 1
              /\ AsOfDay >= DayNumber(det.maturityDate) )
            =>
            /\ Len(entries) = det.durationMonths \div p
            /\ \A i \in 1..Len(entries) : entries[i].count = i
            /\ \A i \in 1..(Len(entries) - 1) :
                  entries[i].timestamp < entries[i + 1].timestamp

----------------------------------------------------------------------------
(* C5: the calendar emits an INTEREST event for every periodic occurrence  *)
(* (N >= 1) dated within the selected window [today, window end] and not   *)
(* after maturity, however long ago the investment started.                *)
C5_CalendarComplete ==
    \A t \in ShownInvestorTxs : \A f \in TimeFilters :
        LET det == Get(t.investorDetails)
            p == MonthsToAdd(det.returnPeriod)
            endDay == LocalDay(WindowEnd(StartOfDay(now), f))
        IN  (IsPeriodic(t) /\ IsSome(det.periodicInterestAmount)) =>
            \A n \in 1..(det.durationMonths + 1) :
                LET due == DayNumber(AddMonthsClamped(t.date, n * p)) IN
                ( /\ AsOfDay <= due /\ due <= endDay
                  /\ due <= DayNumber(det.maturityDate) )
                => \E e \in CalendarInterestOf(t, f) : LocalDay(e.date) = due

----------------------------------------------------------------------------
(* C6: the interest payment the dashboard widget shows is an occurrence    *)
(* start date + N periods with N >= 1; the start date itself (N = 0) is    *)
(* never reported as an interest due date.                                 *)
C6_WidgetNeverStartDate ==
    \A t \in ShownInvestorTxs : \A w \in WidgetInterestOf(t) :
        LET p == MonthsToAdd(Get(t.investorDetails).returnPeriod) IN
        /\ LocalDate(w.date) # t.date
        /\ \E n \in 1..(Get(t.investorDetails).durationMonths + 1) :
              LocalDate(w.date) = AddMonthsClamped(t.date, n * p)

----------------------------------------------------------------------------
(* C7: for the return period Maturity the ledger projection holds no       *)
(* interest entry while the as-of date is before the maturity date, and    *)
(* from the maturity date on exactly one entry, dated on the maturity date *)
(* with amount principal * rate / 100 * durationMonths / 12.               *)
C7_MaturityInterest ==
    \A t \in ShownInvestorTxs :
        LET det == Get(t.investorDetails)
            entries == generateInterestEntries(t)
        IN  (t.type = "INCOME" /\ det.returnPeriod = "Maturity") =>
            IF AsOfDay < DayNumber(det.maturityDate)
            THEN entries = <<>>
            ELSE /\ Len(entries) = 1
                 /\ entries[1].date = det.maturityDate
                 /\ entries[1].amount * 100 * 12
                       = t.amount * det.roi * det.durationMonths

----------------------------------------------------------------------------
(* C8: every periodic interest-due event has amount                        *)
(* (principal * rate / 100) / periods-per-year, with 12, 4, 2, 1 periods   *)
(* per year for Monthly, Quarterly, Half-Yearly, Yearly; the amount the    *)
(* form stores and the amount the ledger computes when none is stored are  *)
(* the same value.                                                         *)
PeriodsPerYear(returnPeriod) ==
    CASE returnPeriod = "Monthly"     -> 12
      [] returnPeriod = "Quarterly"   -> 4
      [] returnPeriod = "Half-Yearly" -> 2
      [] returnPeriod = "Yearly"      -> 1

\* amount = (principal * rate / 100) / periods-per-year, stated without division
IsPeriodicAmount(amount, t) ==
    amount * 100 * PeriodsPerYear(Get(t.investorDetails).returnPeriod)
        = t.amount * Get(t.investorDetails).roi

\* the transaction as it would be stored without a precomputed amount
WithoutStoredAmount(t) ==
    [t EXCEPT !.investorDetails =
        Some([Get(t.investorDetails) EXCEPT !.periodicInterestAmount = None])]

C8_PeriodicAmount ==
    \A t \in ShownInvestorTxs :
        IsPeriodic(t) =>
          /\ \A e \in LedgerEntriesOf(t) : IsPeriodicAmount(e.amount, t)
          /\ \A f \in TimeFilters : \A e \in CalendarInterestOf(t, f) :
                IsPeriodicAmount(e.amount, t)
          /\ \A w \in WidgetInterestOf(t) : IsPeriodicAmount(w.amount, t)
          /\ IsSome(Get(t.investorDetails).periodicInterestAmount) =>
                Get(Get(t.investorDetails).periodicInterestAmount)
                    = LedgerInterestAmount(WithoutStoredAmount(t))
          /\ \A e \in LedgerEntriesOf(WithoutStoredAmount(t)) :
                IsPeriodicAmount(e.amount, t)

\* C8 witness: a quarterly investment with a stored amount and an interest
\* event in the ledger, in the calendar and in the widget at once
C8_Witness ==
    \E t \in ShownInvestorTxs :
        /\ Get(t.investorDetails).returnPeriod = "Quarterly"
        /\ IsSome(Get(t.investorDetails).periodicInterestAmount)
        /\ t.type = "INCOME"
        /\ LedgerEntriesOf(t) # {}
        /\ CalendarInterestOf(t, "30") # {}
        /\ WidgetInterestOf(t) # {}

----------------------------------------------------------------------------
\* last day of the window of a time filter
WindowEndDay(f) ==
    LET d == CivilFromDays(AsOfDay) IN
    CASE f = "ALL" -> DaysFromCivil(d.y + 5, d.m, d.d)
      [] f = "30"  -> AsOfDay + 30
      [] f = "60"  -> AsOfDay + 60
      [] f = "90"  -> AsOfDay + 90

\* the day of the maturity date stored with an investor transaction
MaturityDay(t) == DayNumber(Get(t.investorDetails).maturityDate)

(* C9: each investor transaction contributes exactly one                   *)
(* principal-maturity event, dated on its maturity date with amount equal  *)
(* to its principal, to the calendar's event list; stated for the          *)
(* transactions whose maturity date lies after today and before the last   *)
(* day of the selected window, the calendar listing nothing outside it.    *)
C9_PrincipalOnMaturityDate ==
    \A t \in ShownInvestorTxs : \A f \in TimeFilters :
        AsOfDay < MaturityDay(t) /\ MaturityDay(t) < WindowEndDay(f) =>
            /\ Cardinality(CalendarPrincipalOf(t, f)) = 1
            /\ \A e \in CalendarPrincipalOf(t, f) :
                  /\ e.amount = t.amount
                  /\ LocalDay(e.date) = MaturityDay(t)

----------------------------------------------------------------------------
(* C10: every persisted transaction that carries investor details has     *)
(* type INCOME.                                                            *)
C10_InvestorDetailsOnlyOnIncome ==
    \A t \in StoredInvestorTxs : t.type = "INCOME"

----------------------------------------------------------------------------
(* Vocabulary of the claims about the investor ledger                      *)

\* every account of the ledger, listed or not; there is none when the
\* ledger cannot be built
AllAccounts ==
    IF investorAccountsThrows(transactions) THEN <<>>
    ELSE AccountsOf(transactions).accounts

\* a loan taken: an income entry carrying investor details with a name
IsIncomeEntry(t) ==
    /\ t.type = "INCOME"
    /\ HasInvestorDetails(t)
    /\ Get(t.investorDetails).investorName # ""

\* the transactions the ledger files, and the name each is filed under
IsFiled(t) == IsIncomeEntry(t) \/ t.type = "EXPENSE"
FiledUnder(t) ==
    IF t.type = "EXPENSE" THEN t.category
    ELSE Get(t.investorDetails).investorName

\* two names differ at most in letter case
SameIgnoringCase(a, b) == ToLowerCase(a) = ToLowerCase(b)

\* ids of the real transactions, and the virtual entries, of an account
RealIds(acc) ==
    { acc.transactions[i].id :
        i \in { j \in 1..Len(acc.transactions) : ~acc.transactions[j].isVirtual } }
VirtualEntries(acc) ==
    FilterSeq(acc.transactions,
              { x \in SeqToSet(acc.transactions) : x.isVirtual })

\* positions, in processing order, of the income entries of an account
IncomePositions(acc) ==
    { i \in 1..Len(transactions) :
        /\ IsIncomeEntry(transactions[i])
        /\ SameIgnoringCase(FiledUnder(transactions[i]), acc.name) }

Max(S) == CHOOSE x \in S : \A y \in S : y <= x

----------------------------------------------------------------------------
(* C11: the ledger groups by a case-insensitive key: every filed           *)
(* transaction lies in exactly one account, two transactions whose names   *)
(* (investor name of an income entry, category of an expense) differ only  *)
(* in letter case lie in the same account, and an account with an income   *)
(* entry shows the casing of the income entry processed last.              *)
C11_CaseInsensitiveAccounts ==
    LET accs == AllAccounts
        filed == { t \in SeqToSet(transactions) : IsFiled(t) }
    IN  currentView = "INVESTOR_DASHBOARD" =>
        /\ ~investorAccountsThrows(transactions)
        /\ \A t \in filed :
              Cardinality({ i \in 1..Len(accs) : t.id \in RealIds(accs[i]) }) = 1
        /\ \A t1, t2 \in filed :
              SameIgnoringCase(FiledUnder(t1), FiledUnder(t2)) =>
                 \E i \in 1..Len(accs) :
                    t1.id \in RealIds(accs[i]) /\ t2.id \in RealIds(accs[i])
        /\ \A i \in 1..Len(accs) :
              IncomePositions(accs[i]) # {} =>
                 accs[i].name
                    = FiledUnder(transactions[Max(IncomePositions(accs[i]))])

----------------------------------------------------------------------------
(* C12: the balance of every listed account is totalPrincipal +            *)
(* totalInterestAccrued - totalPaid, totalPrincipal being the sum of the   *)
(* investor's income entries and totalInterestAccrued the sum of the       *)
(* virtual interest entries listed in the account; the portfolio's net     *)
(* outstanding is the sum of the balances of the listed accounts.          *)
RECURSIVE SumBalances(_)
SumBalances(accounts) ==
    IF accounts = <<>> THEN 0
    ELSE netBalance(Head(accounts)) + SumBalances(Tail(accounts))

PrincipalOf(acc) ==
    SumAmounts(FilterSeq(transactions,
        { t \in SeqToSet(transactions) :
            /\ t.type = "INCOME" /\ HasInvestorDetails(t)
            /\ t.id \in RealIds(acc) }))

C12_OutstandingBalance ==
    LET listed == investorAccounts(transactions) IN
    /\ \A i \in 1..Len(listed) :
          /\ listed[i].totalPrincipal = PrincipalOf(listed[i])
          /\ listed[i].totalInterestAccrued = SumAmounts(VirtualEntries(listed[i]))
          /\ netBalance(listed[i])
                = PrincipalOf(listed[i]) + SumAmounts(VirtualEntries(listed[i]))
                  - listed[i].totalPaid
    /\ totalOutstanding(transactions) = SumBalances(listed)

\* C12 witness: two listed accounts, one of them with principal, accrued
\* interest and a payment
C12_Witness ==
    LET listed == investorAccounts(transactions) IN
    /\ Len(listed) = 2
    /\ \E i \in 1..Len(listed) :
          /\ listed[i].totalPrincipal > 0
          /\ listed[i].totalInterestAccrued > 0
          /\ listed[i].totalPaid > 0

----------------------------------------------------------------------------
(* C13 as claimed: an account's total paid is the sum of exactly the       *)
(* expense transactions whose category equals the account's name, each of  *)
(* them counted in that account and in no other.                           *)
ExpensesNamed(name) ==
    { t \in SeqToSet(transactions) : t.type = "EXPENSE" /\ t.category = name }

ExpensesNamedIgnoringCase(name) ==
    { t \in SeqToSet(transactions) :
        t.type = "EXPENSE" /\ SameIgnoringCase(t.category, name) }

PaidAmong(expenses) == SumAmounts(FilterSeq(transactions, expenses))

----------------------------------------------------------------------------
(* Claims about storageService.ts, under StorageSpec                       *)

\* the user ids a caller may ask for: the saved users and one nobody has
AskedUserIds == { getUsers[i].id : i \in 1..Len(getUsers) } \cup { <<"user", 0>> }

\* the transactions stored before the last call
ParsedBefore == IF IsSome(lastCall.before) THEN Get(lastCall.before) ELSE <<>>

OwnedBy(parsed, userId) == { t \in SeqToSet(parsed) : t.userId = userId }

NewestFirst(txs) ==
    \A i \in 1..Len(txs) : \A j \in i..Len(txs) : txs[i].timestamp >= txs[j].timestamp

(* C14: getTransactions(u) returns exactly the stored transactions whose   *)
(* userId is u, each once, ordered newest first by timestamp; and after    *)
(* addTransaction for a user A, getTransactions(B) of every other user B   *)
(* is what it was before the call.                                         *)
C14_ScopedByUser ==
    /\ \A u \in AskedUserIds :
          /\ SeqToSet(getTransactions(u)) = OwnedBy(ParsedTransactions, u)
          /\ Len(getTransactions(u)) = Cardinality(OwnedBy(ParsedTransactions, u))
          /\ NewestFirst(getTransactions(u))
    /\ lastCall.op = "addTransaction" =>
          \A u \in AskedUserIds \ {lastCall.userId} :
              getTransactions(u) = TransactionsOf(ParsedBefore, u)

\* C14 witness: a transaction was just added for one user while another
\* user has one too, and the newer of the two is stored first
C14_Witness ==
    /\ lastCall.op = "addTransaction"
    /\ Len(ParsedTransactions) = 2
    /\ ParsedTransactions[1].userId # ParsedTransactions[2].userId
    /\ ParsedTransactions[1].timestamp > ParsedTransactions[2].timestamp
    /\ getTransactions(ParsedTransactions[2].userId) = <<ParsedTransactions[2]>>

----------------------------------------------------------------------------
\* the positions at which a transaction id is stored
StoredAt(id) == { i \in 1..Len(ParsedTransactions) : ParsedTransactions[i].id = id }

(* C15: a stored transaction differs from what was added only if           *)
(* updateTransaction was called with its id, and an added transaction is   *)
(* absent only if deleteTransaction was called with its id; nothing is     *)
(* stored that was not added; updateTransaction and deleteTransaction with *)
(* an unknown id leave the stored transactions unchanged, and              *)
(* updateTransaction never changes the number or the order of the stored   *)
(* transactions.                                                           *)
C15_OnlyEditAndDeleteChange ==
    /\ \A i \in 1..Len(callLog.added) :
          LET was == callLog.added[i] IN
          /\ Cardinality(StoredAt(was.id)) <= 1
          /\ StoredAt(was.id) = {} => was.id \in callLog.deleted
          /\ \A p \in StoredAt(was.id) :
                ParsedTransactions[p] # was => was.id \in callLog.updated
    /\ \A p \in 1..Len(ParsedTransactions) :
          \E i \in 1..Len(callLog.added) :
              callLog.added[i].id = ParsedTransactions[p].id
    /\ lastCall.op \in {"updateTransaction", "deleteTransaction"}
       /\ ~Includes(TxIds(ParsedBefore), lastCall.id)
          => ParsedTransactions = ParsedBefore
    /\ lastCall.op = "updateTransaction"
          => TxIds(ParsedTransactions) = TxIds(ParsedBefore)

\* C15 witness: of two added transactions one was edited and is stored with
\* other fields, and the last call was an update naming an id never stored
C15_Witness ==
    /\ Len(callLog.added) = 2
    /\ Len(ParsedTransactions) = 2
    /\ \E p \in 1..2 : ParsedTransactions[p] \notin SeqToSet(callLog.added)
    /\ \E p \in 1..2 : ParsedTransactions[p] \in SeqToSet(callLog.added)
    /\ lastCall.op = "updateTransaction"
    /\ lastCall.id = UnknownId

----------------------------------------------------------------------------
(* C16: while a storage key is missing, getUsers returns an empty list,    *)
(* getTransactions returns an empty list, getCategories returns the        *)
(* default category groups and stores them, and updateTransaction and      *)
(* deleteTransaction write nothing.                                        *)
C16_MissingKeysDefault ==
    /\ ~IsSome(userStore) => getUsers = <<>>
    /\ ~IsSome(txStore) => \A u \in AskedUserIds : getTransactions(u) = <<>>
    /\ ~IsSome(catStore) =>
          /\ getCategories.result = DEFAULT_CATEGORIES
          /\ getCategories.store = Some(DEFAULT_CATEGORIES)
    /\ lastCall.op \in {"updateTransaction", "deleteTransaction"}
       /\ ~IsSome(lastCall.before)
          => ~IsSome(txStore)

\* C16 witness: deleteTransaction was called while the transactions key and
\* the categories key were missing, a user being saved already
C16_Witness ==
    /\ lastCall.op = "deleteTransaction"
    /\ ~IsSome(lastCall.before)
    /\ ~IsSome(txStore)
    /\ ~IsSome(catStore)
    /\ Len(getUsers) = 1

----------------------------------------------------------------------------
(* Claims about the assistant, under AISpec                                *)

(* C17: every call of getFinancialAdvice sends exactly one request, and    *)
(* its promise never rejects: it resolves to the connection-trouble        *)
(* message when the request fails, to the could-not-generate message when  *)
(* the response has no text, and to the response's text otherwise, which   *)
(* is never the empty string.                                              *)
C17_OneRequestNeverRejects ==
    /\ lastCall.op = "handleAsk" =>
          /\ Cardinality(inFlight \ lastCall.before) = 1
          /\ lastCall.before \subseteq inFlight
    /\ lastCall.op = "settle" =>
          /\ lastCall.advice.requests = 1
          /\ lastCall.advice.resolved
          /\ lastCall.advice.text # ""
          /\ lastCall.outcome.kind = "failed"
                => lastCall.advice.text = ConnectionTrouble
          /\ lastCall.outcome \in { [kind |-> "none"], [kind |-> "text", text |-> ""] }
                => lastCall.advice.text = CouldNotGenerate
          /\ lastCall.outcome.kind = "text" /\ lastCall.outcome.text # ""
                => lastCall.advice.text = lastCall.outcome.text

\* C17 witness: a call made while another was in flight has had its
\* request fail, and the view shows the connection-trouble message
C17_Witness ==
    /\ lastCall.op = "settle"
    /\ lastCall.outcome.kind = "failed"
    /\ lastCall.request.id = 2
    /\ response = Some(ConnectionTrouble)

----------------------------------------------------------------------------
\* the requests in flight that the AIView on screen started
OwnRequests == { r \in inFlight : r.mount = aiMount }

(* C18 as claimed: an accepted submission sets loading and clears the      *)
(* response; when a request settles, loading is false and the response is  *)
(* a non-empty text; at most one request is in flight.                     *)
C18_OneRequestInFlight ==
    /\ lastCall.op = "handleAsk" => loading /\ response = None
    /\ lastCall.op = "settle" =>
          ~loading /\ IsSome(response) /\ response # Some("")
    /\ Cardinality(inFlight) <= 1

(* C18 as amended: an accepted submission sets loading and clears the      *)
(* response; when a request started by the AIView on screen settles,       *)
(* loading is false, the response is a non-empty text and no request of    *)
(* that AIView is left in flight; the AIView on screen is loading exactly  *)
(* while a request of its own is in flight, and it has at most one.        *)
C18_OneRequestPerMountedView ==
    /\ lastCall.op = "handleAsk" => loading /\ response = None
    /\ lastCall.op = "settle" /\ lastCall.mounted =>
          /\ ~loading
          /\ IsSome(response) /\ response # Some("")
          /\ OwnRequests = {}
    /\ Cardinality(OwnRequests) <= 1
    /\ loading <=> OwnRequests # {}
    /\ currentView # "AI_ASSISTANT" => ~loading /\ aiMount = 0

\* C18 witness: a second question was asked in an AIView that showed a
\* response, while no other request was in flight
C18_Witness ==
    /\ lastCall.op = "handleAsk"
    /\ lastCall.hadResponse
    /\ loading
    /\ Cardinality(inFlight) = 1

----------------------------------------------------------------------------
(* Claims about the category list, under CategorySpec                      *)

\* the items of the first group of that name, none when there is no such group
ItemsOf(cats, g) ==
    IF GroupIndex(cats, g) > 0 THEN cats[GroupIndex(cats, g)].items ELSE <<>>

GroupNames(cats) == [i \in 1..Len(cats) |-> cats[i].group]

\* the items the migrations move, and a list without them
MigratedItems == { "Investor Funds", "SIP (Regular)", "SIP (Gold)" }
Unmigrated(items) == FilterSeq(items, SeqToSet(items) \ MigratedItems)

\* item left 'Personal' during the call and is in the destination group
MovedInto(stored, result, item, destination) ==
    Count(ItemsOf(result, "Personal"), item) < Count(ItemsOf(stored, "Personal"), item)
        => Includes(ItemsOf(result, destination), item)

C19_InvestmentsGroup(result) == GroupIndex(result, "Investments") > 0

C19_PersonalCleared(result) ==
    /\ ~Includes(ItemsOf(result, "Personal"), "SIP (Regular)")
    /\ ~Includes(ItemsOf(result, "Personal"), "SIP (Gold)")
    /\ GroupIndex(result, "Investor Payments") > 0
          => ~Includes(ItemsOf(result, "Personal"), "Investor Funds")

C19_MovedNotLost(stored, result) ==
    /\ MovedInto(stored, result, "SIP (Regular)", "Investments")
    /\ MovedInto(stored, result, "SIP (Gold)", "Investments")
    /\ MovedInto(stored, result, "Investor Funds", "Investor Payments")

C19_NothingElseTouched(stored, result) ==
    /\ FilterSeq(GroupNames(result), SeqToSet(GroupNames(stored))) = GroupNames(stored)
    /\ SeqToSet(GroupNames(result)) \subseteq SeqToSet(GroupNames(stored)) \cup {"Investments"}
    /\ \A g \in SeqToSet(GroupNames(stored)) :
          Unmigrated(ItemsOf(result, g)) = Unmigrated(ItemsOf(stored, g))
    /\ GroupIndex(stored, "Investments") = 0
          => Unmigrated(ItemsOf(result, "Investments")) = <<>>

(* C19: after getCategories returns for a stored list, the result has an   *)
(* 'Investments' group; 'Personal' contains neither 'SIP (Regular)' nor    *)
(* 'SIP (Gold)' nor, when an 'Investor Payments' group exists, 'Investor   *)
(* Funds'; every item removed from 'Personal' is in its destination group; *)
(* no other item is added, removed or reordered; and storage is rewritten  *)
(* exactly when the list changed.                                          *)
C19_MigrationPostconditions ==
    lastCall.op = "getCategories" /\ IsSome(lastCall.before) =>
        /\ C19_InvestmentsGroup(lastCall.result)
        /\ C19_PersonalCleared(lastCall.result)
        /\ C19_MovedNotLost(Get(lastCall.before), lastCall.result)
        /\ C19_NothingElseTouched(Get(lastCall.before), lastCall.result)
        /\ catStore # lastCall.before <=> lastCall.result # Get(lastCall.before)

----------------------------------------------------------------------------
(* C20: after the Reset action of the settings, the stored and the         *)
(* displayed categories are the built-in default category set, whatever    *)
(* was edited earlier in the session.                                      *)
C20_ResetRestoresDefaults ==
    lastCall.op = "handleReset" =>
        /\ catStore = Some(DEFAULT_CATEGORIES)
        /\ categories = DEFAULT_CATEGORIES

----------------------------------------------------------------------------
(* Claims about the save flow of the form, under FormSpec                  *)

(* C21: the form saves only when the amount is present, is a number and is *)
(* strictly positive and a category is selected: no transaction with a     *)
(* zero or negative amount and none without a category is ever stored.     *)
C21_OnlyPositiveAmountsSaved ==
    \A i \in 1..Len(ParsedTransactions) :
        /\ ParsedTransactions[i].amount > 0
        /\ ParsedTransactions[i].category \in FormCategories

----------------------------------------------------------------------------
(* Claims about ensureInvestorCategory, under CategorySpec                 *)

\* the list in storage before the last call, the defaults when none was
BaseList == IF IsSome(lastCall.before) THEN Get(lastCall.before) ELSE DEFAULT_CATEGORIES

\* the group holds the name in some casing
HoldsIgnoringCase(items, name) ==
    \E i \in 1..Len(items) : ToLowerCase(items[i]) = ToLowerCase(name)

C22_GroupHoldsName(name) ==
    /\ IsSome(lastCall.after)
    /\ GroupIndex(Get(lastCall.after), "Investor Payments") > 0
    /\ HoldsIgnoringCase(ItemsOf(Get(lastCall.after), "Investor Payments"), name)

C22_UnchangedIfPresent(name) ==
    /\ IsSome(lastCall.before)
    /\ HoldsIgnoringCase(ItemsOf(BaseList, "Investor Payments"), name)
    => lastCall.after = lastCall.before

C22_AppendedIfAbsent(name) ==
    ~HoldsIgnoringCase(ItemsOf(BaseList, "Investor Payments"), name)
    => ItemsOf(Get(lastCall.after), "Investor Payments")
          = Append(ItemsOf(BaseList, "Investor Payments"), name)

C22_OtherGroupsKept ==
    /\ FilterSeq(GroupNames(Get(lastCall.after)), SeqToSet(GroupNames(BaseList)))
          = GroupNames(BaseList)
    /\ SeqToSet(GroupNames(Get(lastCall.after)))
          \subseteq SeqToSet(GroupNames(BaseList)) \cup {"Investor Payments"}
    /\ \A g \in SeqToSet(GroupNames(BaseList)) \ {"Investor Payments"} :
          ItemsOf(Get(lastCall.after), g) = ItemsOf(BaseList, g)

\* a second call on the list the first call stored
C22_TwiceAsOnce(name) ==
    EnsureIn(getCategoriesOf(lastCall.after, defaultCats), name).store = lastCall.after

(* C22: after ensureInvestorCategory(name) the stored 'Investor Payments'  *)
(* group exists and holds name in some casing; the stored list is          *)
(* unchanged if it did so before, and otherwise name is appended to the    *)
(* group as typed; every other group and the order of the items are kept;  *)
(* and a second call changes nothing more.                                 *)
C22_EnsureInvestorCategory ==
    lastCall.op = "ensureInvestorCategory" =>
        /\ C22_GroupHoldsName(lastCall.name)
        /\ C22_UnchangedIfPresent(lastCall.name)
        /\ C22_AppendedIfAbsent(lastCall.name)
        /\ C22_OtherGroupsKept
        /\ C22_TwiceAsOnce(lastCall.name)

----------------------------------------------------------------------------
(* Claims about the accounts the investor dashboard lists, under LedgerSpec *)

\* the income entries with investor details of the user on screen
InvestorIncomes == { t \in SeqToSet(transactions) : IsIncomeEntry(t) }

(* C23: every account listed on the investor dashboard has an income       *)
(* transaction carrying investor details with its name (up to letter       *)
(* case); without any such income the list is empty and the dashboard      *)
(* shows 'No investor records found'.                                      *)
C23_ListedAccountsAreInvestors ==
    /\ \A i \in 1..Len(investorAccounts(transactions)) :
          \E t \in InvestorIncomes :
              SameIgnoringCase(Get(t.investorDetails).investorName,
                               investorAccounts(transactions)[i].name)
    /\ InvestorIncomes = {} => investorAccounts(transactions) = <<>>

----------------------------------------------------------------------------
(* C24: right after getCategories returned for a stored list, a second     *)
(* call returns the same list, performs no migration and writes nothing.   *)
C24_GetCategoriesIdempotent ==
    lastCall.op = "getCategories" /\ IsSome(lastCall.before) =>
        /\ getCategories.result = lastCall.result
        /\ ~MigrateCategories(Get(catStore)).changed
        /\ getCategories.store = catStore

----------------------------------------------------------------------------
(* Claims about the App's sessions, under SessionSpec                      *)

(* C25: the AUTH view is shown exactly when no user is selected, and       *)
(* whenever another view is shown the list in memory is                    *)
(* getTransactions(current user): only that user's transactions, all of    *)
(* them, and none of a user who was logged in before.                      *)
C25_ViewAndListFollowUser ==
    /\ currentView = "AUTH" <=> ~IsSome(currentUser)
    /\ currentView # "AUTH" =>
          /\ transactions = getTransactions(Get(currentUser))
          /\ \A i \in 1..Len(transactions) :
                transactions[i].userId = Get(currentUser)
          /\ \A i \in 1..Len(ParsedTransactions) :
                ParsedTransactions[i].userId = Get(currentUser)
                   => ParsedTransactions[i] \in SeqToSet(transactions)

\* C25 witness: a second user is on the dashboard with a transaction of
\* their own just saved, after the first user saved one and logged out
C25_Witness ==
    /\ currentView = "DASHBOARD"
    /\ IsSome(currentUser)
    /\ Len(transactions) = 1
    /\ Len(ParsedTransactions) = 2
    /\ ParsedTransactions[1].userId # Get(currentUser)
    /\ ParsedTransactions[2].userId = Get(currentUser)

----------------------------------------------------------------------------
(* The dashboard widget and the payment calendar, under CalendarSpec        *)

\* the calendar event type that shows a widget payment of the given type
CalendarTypeOf(widgetType) ==
    IF widgetType = "MATURITY" THEN "PRINCIPAL" ELSE "INTEREST"

(* C26: every payment of the dashboard's 'Upcoming Payments' widget is     *)
(* also in the payment calendar under the 30-day filter, for the same      *)
(* transaction, of the same kind, on the same date and of the same amount. *)
C26_WidgetWithinCalendar ==
    \A p \in SeqToSet(upcomingPayments(transactions)) :
        \E e \in SeqToSet(allEvents(transactions, "30")) :
            /\ e.transactionId = p.originalTxId
            /\ e.type = CalendarTypeOf(p.type)
            /\ e.date = p.date
            /\ e.amount = p.amount

----------------------------------------------------------------------------
(* Dates of the ledger's virtual entries, under CalendarSpec               *)

\* the virtual entries of the periodic investor transactions on screen
PeriodicLedgerEntries ==
    UNION { LedgerEntriesOf(t) : t \in { x \in ShownInvestorTxs : IsPeriodic(x) } }

(* C27: the date stored in each virtual interest entry of the ledger is   *)
(* the local calendar day of the instant used for its timestamp and for   *)
(* the 'due on or before today' test, whatever the time-zone offset.      *)
C27_EntryDateIsLocalDueDate ==
    \A t \in ShownInvestorTxs :
        \A e \in LedgerEntriesOf(t) : e.date = LocalDate(e.timestamp)

\* the same for the periodic entries only, on a device at or west of UTC
C27_PeriodicWestOfUTC ==
    tz <= 0 => \A e \in PeriodicLedgerEntries : e.date = LocalDate(e.timestamp)

\* the same for the periodic entries only, on a device east of UTC
C27_PeriodicEastOfUTC ==
    tz > 0 => \A e \in PeriodicLedgerEntries : e.date = LocalDate(e.timestamp)

----------------------------------------------------------------------------
(* Claims about payments recorded from an account, under PaymentSpec      *)

\* the account filed under a key, and the keys of the listed accounts
AccountAt(accounts, key) == accounts[AccountIndex(accounts, key)]
AccountKeys(accounts) == { accounts[i].key : i \in 1..Len(accounts) }

\* the step is handleRecordPayment: the investor dashboard opens the form
C28_FormOpened ==
    currentView = "INVESTOR_DASHBOARD" /\ currentView' = "ADD_TRANSACTION"

\* the form is an expense form preset to the name of a listed account
C28_PresetToAccount ==
    /\ txTypeToAdd' = "EXPENSE"
    /\ IsSome(txPreFill')
    /\ \E i \in 1..Len(investorAccounts(transactions)) :
          investorAccounts(transactions)[i].name = Get(txPreFill').category

\* the step stores a transaction from the preset form, category unchanged
C28_PaymentSaved ==
    /\ currentView = "ADD_TRANSACTION"
    /\ IsSome(txPreFill)
    /\ \E t \in SeqToSet(transactions') :
          t.id = <<"tx", nextId>> /\ t.category = Get(txPreFill).category

\* what the payment does to the accounts
C28_EffectOn(before, after, key, t) ==
    /\ t.type = "EXPENSE"
    /\ AccountIndex(before, key) # 0
    /\ AccountIndex(after, key) # 0
    /\ AccountAt(after, key).totalPaid
          = AccountAt(before, key).totalPaid + t.amount
    /\ netBalance(AccountAt(after, key))
          = netBalance(AccountAt(before, key)) - t.amount
    /\ AccountAt(after, key).totalPrincipal
          = AccountAt(before, key).totalPrincipal
    /\ AccountAt(after, key).totalInterestAccrued
          = AccountAt(before, key).totalInterestAccrued
    /\ AccountKeys(after) = AccountKeys(before)
    /\ \A k \in AccountKeys(before) \ {key} :
          AccountAt(after, k) = AccountAt(before, k)

C28_Effect ==
    C28_EffectOn(investorAccounts(transactions),
                 investorAccounts(transactions'),
                 AccountKey(Get(txPreFill).category),
                 CHOOSE t \in SeqToSet(transactions') : t.id = <<"tx", nextId>>)

(* C28: 'Record Interest Payment' opens the form as an EXPENSE with the    *)
(* category preset to the account's name; saving it with that category     *)
(* raises that account's totalPaid by the amount, lowers its outstanding   *)
(* balance by the amount, keeps its totalPrincipal and                     *)
(* totalInterestAccrued, and keeps every other account as it was.          *)
C28_RecordedPaymentHitsOneAccount ==
    [][ /\ C28_FormOpened => C28_PresetToAccount
        /\ C28_PaymentSaved => C28_Effect ]_vars

\* C28 witness: back on the dashboard with a payment saved from the preset
\* form, its account holding principal and that payment, and a second
\* account beside it
C28_Witness ==
    /\ currentView = "DASHBOARD"
    /\ Len(investorAccounts(transactions)) >= 2
    /\ \E t \in SeqToSet(transactions) :
          /\ t.type = "EXPENSE"
          /\ t.note = "Interest Payment"
          /\ AccountIndex(investorAccounts(transactions),
                          AccountKey(t.category)) # 0
          /\ AccountAt(investorAccounts(transactions),
                       AccountKey(t.category)).totalPrincipal > 0
          /\ AccountAt(investorAccounts(transactions),
                       AccountKey(t.category)).totalPaid = t.amount

====
